---- MODULE Spec2Model ----
(***************************************************************************)
(* Node-local service dataplane reconciler (nodePortWatcher) of            *)
(* ovn-kubernetes: the record map, the OpenFlow flow cache, the iptables   *)
(* rules and the Service / EndpointSlice handlers that keep them in step.  *)
(***************************************************************************)
EXTENDS Integers, Sequences, FiniteSets, TLC

\* ---------------------------------------------------------------- bounds
NumSlices == 2          \* EndpointSlice objects that may exist at once
MaxEvents == 3          \* handler calls in one run
MaxRaceEvents == 2

MaxSyncEvents == 2

MaxAddrEvents == 2      \* events in one run with address changes

MaxEdgeEvents == 2      \* handler calls in one run with retried and unlabelled slice events

MaxPods == 3            \* pods whose port ConfigureOVS sets up in one run

MaxFailures == 1        \* calls during which the iptables backend fails
MaxFailEvents == 2      \* handler calls in one run with a failing backend

\* ------------------------------------------------------- configuration
IPv4Mode == TRUE
IPv6Mode == TRUE
AllowNoUplink == FALSE
ofportPhys == "eth0"
gatewayIPv4 == "192.168.1.1"
gatewayIPv6 == "fd00::1"
thisNode == "node1"

\* ------------------------------------------------------------- objects
SvcName == "ns1/svc-a"
SliceIds == 1..NumSlices
\* values of a metadata label, a field outside the tracked ones
Labels == {"v1", "v2"}

\* addresses owned by this node (nodeIPManager.ListAddresses)
NodeIPs == {"192.168.1.1"}

ValidIPs == {"10.96.0.1", "1.2.3.4", "5.6.7.8", "192.168.1.1", "fd00::1",
             "10.0.0.5", "10.0.1.9", "10.0.2.7", "10.0.3.3", "192.168.1.2", "fd01::5", "fd01::9"}
IPv6Strings == {"fd00::1", "fd00::2", "fd69::2"}

\* addresses the node may own besides those of the gateway bridge
ExtraAddrs == {"172.16.0.2", "fd00::2"}
V4HostMasqueradeIP == "169.254.169.2"
V6HostMasqueradeIP == "fd69::2"

Port80 == [port |-> 80, nodePort |-> 0, targetPort |-> "8080", protocol |-> "tcp"]
Port80NP == [port |-> 80, nodePort |-> 30080, targetPort |-> "8080", protocol |-> "tcp"]

BaseSvc == [name |-> SvcName, type |-> "ClusterIP", clusterIP |-> "10.96.0.1",
            ports |-> <<Port80>>, externalIPs |-> <<>>, ingress |-> <<>>,
            etp |-> "Cluster", itp |-> "Cluster", alloc |-> "nil", label |-> "v1"]

\* the Service shapes the API may hold for the key: a plain ClusterIP
\* service, a NodePort service (ETP=local, ITP=local), a LoadBalancer service
\* with and one without node-port allocation, and an ExternalName service
SvcNodePort == [BaseSvc EXCEPT !.type = "NodePort", !.ports = <<Port80NP>>,
                               !.etp = "Local", !.itp = "Local"]
SvcLB == [BaseSvc EXCEPT !.type = "LoadBalancer", !.ports = <<Port80NP>>,
                         !.ingress = <<"1.2.3.4">>, !.etp = "Local", !.alloc = "true"]
SvcLBNoAlloc == [BaseSvc EXCEPT !.type = "LoadBalancer", !.ingress = <<"1.2.3.4">>,
                                !.etp = "Local", !.alloc = "false"]
SvcExternalName == [BaseSvc EXCEPT !.type = "ExternalName", !.clusterIP = "",
                                   !.externalIPs = <<"5.6.7.8">>, !.itp = "nil"]

SvcShapes == { BaseSvc, SvcNodePort, SvcLB, SvcLBNoAlloc, SvcExternalName }

\* the same service with another value of a label
Relabelled == { [s EXCEPT !.label = l] : s \in {BaseSvc, SvcLB}, l \in Labels }

Services == SvcShapes \cup Relabelled

\* endpoints: a pod on this node, the node's own address (host-networked),
\* a pod on another node
EpPodA == [addr |-> "10.0.0.5", node |-> "node1"]
EpHost == [addr |-> "192.168.1.1", node |-> "node1"]
EpRemote == [addr |-> "10.0.1.9", node |-> "node2"]

SliceContents == { {}, {EpPodA}, {EpHost}, {EpPodA, EpRemote} }
SliceLabels == {SvcName}
EndpointSlices == [label : SliceLabels, eps : SliceContents]

\* a Go set that may be nil
NilSet == [nil |-> TRUE, set |-> {}]
MkSet(s) == [nil |-> FALSE, set |-> s]
\* sets.List
List(ls) == ls.set

RangeOf(seq) == { seq[i] : i \in 1..Len(seq) }

\* ------------------------------------------------------------- util.*
ServiceTypeHasClusterIP(svc) == svc.type \in {"ClusterIP", "NodePort", "LoadBalancer"}
IsClusterIPSet(svc) == svc.clusterIP # "None" /\ svc.clusterIP # ""
ServiceTypeHasNodePort(svc) == svc.type \in {"NodePort", "LoadBalancer"}
ServiceExternalTrafficPolicyLocal(svc) == svc.etp = "Local"
ServiceInternalTrafficPolicyLocal(svc) == svc.itp = "Local"
LoadBalancerServiceHasNodePortAllocation(svc) == svc.alloc = "nil" \/ svc.alloc = "true"
GetExternalAndLBIPs(svc) == RangeOf(svc.externalIPs) \cup RangeOf(svc.ingress)
GetClusterIPs(svc) == {svc.clusterIP}
Eligible(svc) == ServiceTypeHasClusterIP(svc) /\ IsClusterIPSet(svc)

\* addresses of the endpoints of the slices that run on this node
GetLocalEndpointAddresses(slices) ==
  MkSet({ e.addr : e \in { e \in UNION { s.eps : s \in slices } : e.node = thisNode } })
\* all endpoint addresses of the slices
GetEndpointAddresses(slices) == { e.addr : e \in UNION { s.eps : s \in slices } }
HasLocalHostNetworkEndpoints(localEndpoints, nodeIPs) ==
  \E a \in localEndpoints.set : a \in nodeIPs

\* utilnet.ParseIPSloppy(ip).String(): a nil IP prints as "<nil>"
\* and an IPv4 address written with leading zeros prints without them
ParseIPSloppyString(ip) == IF ip \in ValidIPs THEN ip
                           ELSE IF ip = "010.0.0.5" THEN "10.0.0.5"
                           ELSE "<nil>"
IsIPv6String(ip) == ip \in IPv6Strings
Six(protocol) == CASE protocol = "tcp" -> "tcp6"
                   [] protocol = "udp" -> "udp6"
                   [] OTHER -> "sctp6"
Contains6(flowProtocol) == flowProtocol \in {"tcp6", "udp6", "sctp6"}

\* ------------------------------------------------- openflowManager cache

FlowKey(t, svc, id, port) == [t |-> t, name |-> svc.name, id |-> id, port |-> port]
Flows(kind, dst, tp) == [kind |-> kind, dst |-> dst, tp |-> tp]

VARIABLES
  gwMode,        \* config.Gateway.Mode: "shared" or "local"
  apiSvc,        \* watchFactory: the Service objects the lister returns, by name
  apiSlices,     \* watchFactory: the EndpointSlice objects the lister returns, by id
  serviceInfo,   \* npw.serviceInfo: name -> serviceConfig
  flowCache,     \* ofm.flowCache: key -> flow group
  flowChan,      \* ofm.flowChan: number of pending sync signals (capacity 1)
  ipt,           \* the iptables rules present in the kernel
  lastCall,      \* the event that happened last
  lastOps,       \* the backend operations the last handler call performed
  lastErr,       \* whether the last handler call returned an error
  failed,        \* whether the iptables backend has failed during some call
  failBudget,    \* calls during which the iptables backend may still fail
  budget,        \* handler calls left in this run
  listerNF       \* whether the lister reports an empty slice listing as NotFound

vars == <<gwMode, apiSvc, apiSlices, serviceInfo, flowCache, flowChan, ipt,
          lastCall, lastOps, lastErr, failed, failBudget, budget, listerNF>>

\* the flow protocols of one service port, by enabled IP family
FlowProtocols(protocol) ==
  (IF IPv4Mode THEN {protocol} ELSE {}) \cup (IF IPv6Mode THEN {Six(protocol)} ELSE {})

\* a NodePort part that stores the steer-to-OVN group whatever the endpoints
NodePortEntries_AlwaysCase2(svc, add, hasLocalHostNetworkEp) ==
  UNION {
    { [key |-> FlowKey("NodePort", svc, fp, p.nodePort),
       del |-> ~add,
       set |-> add,
       flows |-> Flows("case2", "", "")] : fp \in FlowProtocols(p.protocol) } :
    p \in { q \in RangeOf(svc.ports) : q.nodePort > 0 } }

\* the NodePort part of updateServiceFlowCache: per node port and flow
\* protocol the key, and for add the flow group to store (set = FALSE: in
\* local gateway mode nothing is stored unless the service is ETP=local with
\* a host-networked endpoint)
NodePortEntries(svc, add, hasLocalHostNetworkEp) ==
  UNION {
    { [key |-> FlowKey("NodePort", svc, fp, p.nodePort),
       del |-> ~add,
       set |-> add /\ ((ServiceExternalTrafficPolicyLocal(svc) /\ hasLocalHostNetworkEp)
                         \/ gwMode = "shared"),
       flows |-> IF ServiceExternalTrafficPolicyLocal(svc) /\ hasLocalHostNetworkEp
                 THEN Flows("case1", IF Contains6(fp) THEN gatewayIPv6 ELSE gatewayIPv4,
                            p.targetPort)
                 ELSE Flows("case2", "", "")] : fp \in FlowProtocols(p.protocol) } :
    p \in { q \in RangeOf(svc.ports) : q.nodePort > 0 } }

\* createLbAndExternalSvcFlows for one port and one external or ingress IP
createLbAndExternalSvcFlows(svc, p, add, hasLocalHostNetworkEp, ip, ipType) ==
  [key |-> FlowKey(ipType, svc, ip, p.port),
   err |-> ip \notin ValidIPs,
   del |-> ip \in ValidIPs /\ ~add,
   set |-> ip \in ValidIPs /\ add,
   flows |-> IF ServiceExternalTrafficPolicyLocal(svc) /\ hasLocalHostNetworkEp
             THEN Flows("arp+case1", IF IsIPv6String(ip) THEN gatewayIPv6 ELSE gatewayIPv4,
                        p.targetPort)
             ELSE IF gwMode = "shared" THEN Flows("arp+case2", "", "")
             ELSE Flows("arp", "", "")]

LbAndExternalEntries(svc, add, hasLocalHostNetworkEp) ==
  { createLbAndExternalSvcFlows(svc, p, add, hasLocalHostNetworkEp,
                                ParseIPSloppyString(ip), "Ingress") :
      p \in RangeOf(svc.ports), ip \in { i \in RangeOf(svc.ingress) : i # "" } }
  \cup
  { createLbAndExternalSvcFlows(svc, p, add, hasLocalHostNetworkEp,
                                ParseIPSloppyString(ip), "External") :
      p \in RangeOf(svc.ports), ip \in RangeOf(svc.externalIPs) }

ApplyEntries(fc, entries) ==
  LET dels == { e.key : e \in { x \in entries : x.del } }
      sets == { e \in entries : e.set }
      keep == DOMAIN fc \ dels
  IN [k \in keep \cup { e.key : e \in sets } |->
        IF \E e \in sets : e.key = k
        THEN (CHOOSE e \in sets : e.key = k).flows
        ELSE fc[k]]

\* an update that applies none of the ingress and external IP entries once
\* one of them fails
updateServiceFlowCache_StopsOnError(fc, svc, add, hasLocalHostNetworkEp) ==
  LET np == { [key |-> e.key, del |-> e.del, set |-> e.set, flows |-> e.flows] :
                e \in NodePortEntries(svc, add, hasLocalHostNetworkEp) }
      lb == LbAndExternalEntries(svc, add, hasLocalHostNetworkEp)
      ext == { [key |-> e.key, del |-> e.del, set |-> e.set, flows |-> e.flows] :
                e \in lb }
  IN [fc |-> ApplyEntries(fc, IF \E e \in lb : e.err THEN np ELSE np \cup ext),
      err |-> \E e \in lb : e.err,
      errors |-> { e.key : e \in { x \in lb : x.err } }]

\* updateServiceFlowCache: the cache after the call, whether it returned an
\* error, and the aggregate of the per-IP errors (each named by the key of
\* the entry that failed)
updateServiceFlowCache(fc, svc, add, hasLocalHostNetworkEp) ==
  IF gwMode = "local" /\ AllowNoUplink /\ ofportPhys = ""
  THEN [fc |-> fc, err |-> FALSE, errors |-> {}]
  ELSE LET np == { [key |-> e.key, del |-> e.del, set |-> e.set, flows |-> e.flows] :
                     e \in NodePortEntries(svc, add, hasLocalHostNetworkEp) }
           lb == LbAndExternalEntries(svc, add, hasLocalHostNetworkEp)
           ext == { [key |-> e.key, del |-> e.del, set |-> e.set, flows |-> e.flows] :
                     e \in lb }
       IN [fc |-> ApplyEntries(fc, np \cup ext),
           err |-> \E e \in lb : e.err,
           errors |-> { e.key : e \in { x \in lb : x.err } }]

\* requestFlowSync: a non-blocking send on a channel of capacity 1
requestFlowSync(ch) == IF ch < 1 THEN ch + 1 ELSE ch

\* ------------------------------------------------------------- iptables
dpuMode == FALSE

Rule(table, chain, svc, vip, port, target) ==
  [table |-> table, chain |-> chain, name |-> svc.name, vip |-> vip, port |-> port,
   target |-> target]

\* getGatewayIPTRules: the rules of one service, a function of the service,
\* its local endpoints and its host-network-endpoint flag
getGatewayIPTRules(svc, localEndpoints, svcHasLocalHostNetEndPnt) ==
  LET etpOnly == ServiceExternalTrafficPolicyLocal(svc) /\ ~svcHasLocalHostNetEndPnt
      ports == RangeOf(svc.ports)
      nodePort == IF ServiceTypeHasNodePort(svc)
                  THEN { Rule("nat", "OVN-KUBE-NODEPORT", svc, "", p.nodePort, "DNAT-clusterIP") :
                           p \in { q \in ports : q.nodePort > 0 } }
                       \cup (IF etpOnly
                             THEN { Rule("nat", "OVN-KUBE-ETP", svc, "", p.nodePort, "DNAT-masquerade") :
                                      p \in { q \in ports : q.nodePort > 0 } }
                                  \cup
                                  { Rule("nat", "OVN-KUBE-SNAT-MGMTPORT", svc, "", p.nodePort, "RETURN") :
                                      p \in { q \in ports : q.nodePort > 0 } }
                             ELSE {})
                  ELSE {}
      external == { Rule("nat", "OVN-KUBE-EXTERNALIP", svc, ip, p.port, "DNAT-clusterIP") :
                      ip \in GetExternalAndLBIPs(svc), p \in ports }
                  \cup (IF etpOnly
                        THEN IF LoadBalancerServiceHasNodePortAllocation(svc)
                             THEN { Rule("nat", "OVN-KUBE-ETP", svc, ip, p.port, "DNAT-masquerade") :
                                      ip \in GetExternalAndLBIPs(svc), p \in ports }
                             ELSE { Rule("nat", "OVN-KUBE-ETP", svc, ip, p.port, ep) :
                                      ip \in GetExternalAndLBIPs(svc), p \in ports,
                                      ep \in localEndpoints }
                        ELSE {})
      itp == IF ServiceInternalTrafficPolicyLocal(svc)
             THEN IF svcHasLocalHostNetEndPnt
                  THEN { Rule("nat", "OVN-KUBE-ITP", svc, ip, p.port, "REDIRECT") :
                           ip \in GetClusterIPs(svc), p \in ports }
                  ELSE { Rule("mangle", "OVN-KUBE-ITP", svc, ip, p.port, "MARK") :
                           ip \in GetClusterIPs(svc), p \in ports }
             ELSE {}
  IN nodePort \cup external \cup itp

\* addGatewayIptRules / delGatewayIptRules: insert or delete the rules of
\* getGatewayIPTRules; a failing iptables backend changes nothing
addGatewayIptRules(rules, svc, localEndpoints, hn, iptOK) ==
  IF iptOK THEN rules \cup getGatewayIPTRules(svc, localEndpoints, hn) ELSE rules
delGatewayIptRules(rules, svc, localEndpoints, hn, iptOK) ==
  IF iptOK THEN rules \ getGatewayIPTRules(svc, localEndpoints, hn) ELSE rules

\* recreateIPTRules: the chain holds exactly the rules of the keep list that
\* belong to it
recreateIPTRules(rules, table, chain, keepIPTRules, iptOK) ==
  IF iptOK
  THEN { r \in rules : ~(r.table = table /\ r.chain = chain) }
       \cup { r \in keepIPTRules : r.table = table /\ r.chain = chain }
  ELSE rules

\* ------------------------------------------------- handler-local state
\* the part of the program a handler reads and writes, threaded through the
\* calls a handler makes: si = serviceInfo, fc = flowCache, ch = flowChan,
\* ipt, ops = the backend operations so far, err = the error returned
Op(op, a, b, n) == [op |-> op, a |-> a, b |-> b, n |-> n]

NoErr(st) == [st EXCEPT !.err = FALSE]

\* an installation that reports no error
addServiceRules_SwallowsError(st, svc, localEndpoints, svcHasLocalHostNetEndPnt, iptOK) ==
  [st EXCEPT
     !.fc = updateServiceFlowCache(st.fc, svc, TRUE, svcHasLocalHostNetEndPnt).fc,
     !.ch = requestFlowSync(st.ch),
     !.ipt = addGatewayIptRules(st.ipt, svc, localEndpoints, svcHasLocalHostNetEndPnt, iptOK),
     !.ops = Append(st.ops, Op("addServiceRules", svc.name, "", 0)),
     !.err = FALSE]

\* an installation that does not request a flow sync
addServiceRules_NoFlowSync(st, svc, localEndpoints, svcHasLocalHostNetEndPnt, iptOK) ==
  LET r == updateServiceFlowCache(st.fc, svc, TRUE, svcHasLocalHostNetEndPnt)
  IN [st EXCEPT
        !.fc = r.fc,
        !.ipt = IF dpuMode THEN st.ipt
                ELSE addGatewayIptRules(st.ipt, svc, localEndpoints,
                                        svcHasLocalHostNetEndPnt, iptOK),
        !.ops = Append(st.ops, Op("addServiceRules", svc.name, "", 0)),
        !.err = r.err \/ (~dpuMode /\ ~iptOK)]

\* addServiceRules for the nodePortWatcher (npw != nil)
addServiceRules(st, svc, localEndpoints, svcHasLocalHostNetEndPnt, iptOK) ==
  LET r == updateServiceFlowCache(st.fc, svc, TRUE, svcHasLocalHostNetEndPnt)
  IN [st EXCEPT
        !.fc = r.fc,
        !.ch = requestFlowSync(st.ch),
        !.ipt = IF dpuMode THEN st.ipt
                ELSE addGatewayIptRules(st.ipt, svc, localEndpoints,
                                        svcHasLocalHostNetEndPnt, iptOK),
        !.ops = Append(st.ops, Op("addServiceRules", svc.name, "", 0)),
        !.err = r.err \/ (~dpuMode /\ ~iptOK)]

\* a deletion of the rules of the host-network variant only
delServiceRules_OnlyHostNetworkVariant(st, svc, localEndpoints, iptOK) ==
  [st EXCEPT
     !.fc = updateServiceFlowCache(st.fc, svc, FALSE, FALSE).fc,
     !.ch = requestFlowSync(st.ch),
     !.ipt = delGatewayIptRules(st.ipt, svc, localEndpoints, TRUE, iptOK),
     !.ops = Append(st.ops, Op("delServiceRules", svc.name, "", 0)),
     !.err = ~iptOK]

\* delServiceRules for the nodePortWatcher: both host-network variants of the
\* iptables rules are deleted
delServiceRules(st, svc, localEndpoints, iptOK) ==
  LET r == updateServiceFlowCache(st.fc, svc, FALSE, FALSE)
  IN [st EXCEPT
        !.fc = r.fc,
        !.ch = requestFlowSync(st.ch),
        !.ipt = IF dpuMode THEN st.ipt
                ELSE delGatewayIptRules(
                       delGatewayIptRules(st.ipt, svc, localEndpoints, TRUE, iptOK),
                       svc, localEndpoints, FALSE, iptOK),
        !.ops = Append(st.ops, Op("delServiceRules", svc.name, "", 0)),
        !.err = r.err \/ (~dpuMode /\ ~iptOK)]

\* --------------------------------------------------------- record map
serviceConfig(service, hasLocalHostNetworkEp, localEndpoints) ==
  [service |-> service, hasLocalHostNetworkEp |-> hasLocalHostNetworkEp,
   localEndpoints |-> localEndpoints]

SetInfo(si, index, cfg) == [k \in DOMAIN si \cup {index} |-> IF k = index THEN cfg ELSE si[k]]

\* each operation returns the map after it (si), the record it found (old,
\* meaningful when exists) and whether a record existed
MapResult(si, before, index) ==
  [si |-> si, exists |-> index \in DOMAIN before,
   old |-> IF index \in DOMAIN before THEN before[index]
           ELSE serviceConfig(BaseSvc, FALSE, NilSet)]

\* a deletion that leaves the record in the map
getAndDeleteServiceInfo_KeepsRecord(si, index) == MapResult(si, si, index)

getAndDeleteServiceInfo(si, index) ==
  MapResult([k \in DOMAIN si \ {index} |-> si[k]], si, index)

\* a lookup that never finds the record
getServiceInfo_NeverExists(si, index) == [MapResult(si, si, index) EXCEPT !.exists = FALSE]

getServiceInfo(si, index) == MapResult(si, si, index)

\* a getAndSetServiceInfo that leaves an existing record as it is
getAndSetServiceInfo_KeepsExisting(si, index, service, hasLocalHostNetworkEp, localEndpoints) ==
  MapResult(IF index \in DOMAIN si THEN si
            ELSE SetInfo(si, index,
                         serviceConfig(service, hasLocalHostNetworkEp, localEndpoints)),
            si, index)

getAndSetServiceInfo(si, index, service, hasLocalHostNetworkEp, localEndpoints) ==
  MapResult(SetInfo(si, index, serviceConfig(service, hasLocalHostNetworkEp, localEndpoints)),
            si, index)

\* an addOrSetServiceInfo that never reports an existing record
addOrSetServiceInfo_NeverExists(si, index, service, hasLocalHostNetworkEp, localEndpoints) ==
  [si |-> IF index \notin DOMAIN si
          THEN SetInfo(si, index,
                       serviceConfig(service, hasLocalHostNetworkEp, localEndpoints))
          ELSE si,
   exists |-> FALSE,
   old |-> serviceConfig(BaseSvc, FALSE, NilSet)]

addOrSetServiceInfo(si, index, service, hasLocalHostNetworkEp, localEndpoints) ==
  MapResult(IF index \notin DOMAIN si
            THEN SetInfo(si, index,
                         serviceConfig(service, hasLocalHostNetworkEp, localEndpoints))
            ELSE si,
            si, index)

\* an updateServiceInfo that resets the endpoint state it was not given
updateServiceInfo_ResetsEndpointState(si, index, setSvc, service, setHn, hasLocalHostNetworkEp, localEndpoints) ==
  MapResult(IF index \notin DOMAIN si THEN si
            ELSE SetInfo(si, index,
                   serviceConfig(IF setSvc THEN service ELSE si[index].service,
                                 setHn /\ hasLocalHostNetworkEp,
                                 localEndpoints)),
            si, index)

\* updateServiceInfo; a nil argument (setSvc, setHn = FALSE, a nil set) leaves
\* its field alone
updateServiceInfo(si, index, setSvc, service, setHn, hasLocalHostNetworkEp, localEndpoints) ==
  MapResult(IF index \notin DOMAIN si THEN si
            ELSE SetInfo(si, index,
                   serviceConfig(IF setSvc THEN service ELSE si[index].service,
                                 IF setHn THEN hasLocalHostNetworkEp
                                 ELSE si[index].hasLocalHostNetworkEp,
                                 IF ~localEndpoints.nil THEN localEndpoints
                                 ELSE si[index].localEndpoints)),
            si, index)

\* ------------------------------------------------------- the watch factory
\* L is what a handler sees of its collaborators during one call:
\* L.svcs and L.slices are the lister contents, L.nf whether an empty slice
\* listing is reported as NotFound, L.iptOK whether iptables calls succeed
GetEndpointSlices(L, name) ==
  { L.slices[i] : i \in { j \in DOMAIN L.slices : L.slices[j].label = name } }
SlicesNotFound(L, name) == GetEndpointSlices(L, name) = {} /\ L.nf
ServiceFound(L, name) == name \in DOMAIN L.svcs

\* util.ServiceNamespacedNameFromEndpointSlice fails on a slice without the
\* service-name label
NoLabel == ""
HasServiceLabel(epSlice) == epSlice.label # NoLabel

VARIABLE nodeAddrs   \* nodeIPManager: the additional addresses the node owns now

\* nodeIPManager.ListAddresses
ListAddresses(extra) == NodeIPs \cup extra

\* nodeIPs := npw.nodeIPManager.ListAddresses(): the addresses of the node as
\* a handler reads them
currentNodeIPs == ListAddresses(nodeAddrs)

\* ------------------------------------------------------------- handlers
serviceUpdateNotNeeded(old, new) ==
  /\ new.ports = old.ports
  /\ new.externalIPs = old.externalIPs
  /\ new.clusterIP = old.clusterIP
  /\ new.type = old.type
  /\ new.ingress = old.ingress
  /\ new.etp = old.etp
  /\ (new.itp # "nil" /\ old.itp # "nil" /\ new.itp = old.itp)
  /\ (new.alloc # "nil" /\ old.alloc # "nil" /\ new.alloc = old.alloc)

\* an AddService without the early return for ineligible services
AddService_NoEligibilityCheck(st, service, L) ==
  LET localEndpoints == GetLocalEndpointAddresses(GetEndpointSlices(L, service.name))
      hasLocalHostNetworkEp == HasLocalHostNetworkEndpoints(localEndpoints, currentNodeIPs)
      r == addOrSetServiceInfo(st.si, service.name, service,
                               hasLocalHostNetworkEp, localEndpoints)
  IN IF ~r.exists
     THEN addServiceRules([st EXCEPT !.si = r.si], service, List(localEndpoints),
                          hasLocalHostNetworkEp, L.iptOK)
     ELSE NoErr(st)

AddService(st, service, L) ==
  IF ~ServiceTypeHasClusterIP(service) \/ ~IsClusterIPSet(service) THEN NoErr(st)
  ELSE
    LET notFound == SlicesNotFound(L, service.name)
        epSlices == GetEndpointSlices(L, service.name)
        localEndpoints == IF notFound THEN NilSet ELSE GetLocalEndpointAddresses(epSlices)
        hasLocalHostNetworkEp ==
          IF notFound THEN FALSE
          ELSE HasLocalHostNetworkEndpoints(localEndpoints, currentNodeIPs)
        r == addOrSetServiceInfo(st.si, service.name, service,
                                 hasLocalHostNetworkEp, localEndpoints)
        st1 == [st EXCEPT !.si = r.si]
    IN IF ~r.exists
       THEN addServiceRules(st1, service, List(localEndpoints), hasLocalHostNetworkEp,
                            L.iptOK)
       ELSE NoErr(st1)

UpdateService(st, old, new, L) ==
  IF serviceUpdateNotNeeded(old, new) THEN NoErr(st)
  ELSE
    LET r == updateServiceInfo(st.si, old.name, TRUE, new, FALSE, FALSE, NilSet)
        svcConfig == r.old
        st1 == [st EXCEPT !.si = r.si]
        st2 == IF ServiceTypeHasClusterIP(old) /\ IsClusterIPSet(old)
               THEN delServiceRules(NoErr(st1), old, List(svcConfig.localEndpoints), L.iptOK)
               ELSE NoErr(st1)
        st3 == IF ServiceTypeHasClusterIP(new) /\ IsClusterIPSet(new)
               THEN addServiceRules(st2, new, List(svcConfig.localEndpoints),
                                    svcConfig.hasLocalHostNetworkEp, L.iptOK)
               ELSE NoErr(st2)
    IN IF ~r.exists THEN NoErr(st)
       ELSE [st3 EXCEPT !.err = st2.err \/ st3.err]

\* the conntrack entries deleteConntrackForServiceVIP purges, in order
RECURSIVE VIPPurges(_, _, _)
VIPPurges(svcVIPs, svcPorts, i) ==
  IF i > Len(svcVIPs) THEN <<>>
  ELSE [j \in 1..Len(svcPorts) |-> Op("conntrack", svcVIPs[i], svcPorts[j].protocol,
                                      svcPorts[j].port)]
       \o VIPPurges(svcVIPs, svcPorts, i + 1)

\* the node addresses as ListAddresses returns them
NodeIPList == <<"192.168.1.1">>

RECURSIVE NodePortPurges(_, _, _)
NodePortPurges(nodeIPs, svcPorts, i) ==
  IF i > Len(nodeIPs) THEN <<>>
  ELSE [j \in 1..Len(svcPorts) |-> Op("conntrack", nodeIPs[i], svcPorts[j].protocol,
                                      svcPorts[j].nodePort)]
       \o NodePortPurges(nodeIPs, svcPorts, i + 1)

\* a purge that leaves the node ports out
deleteConntrackForService_SkipsNodePorts(service) ==
  VIPPurges(service.externalIPs \o service.ingress, service.ports, 1)
  \o VIPPurges(<<service.clusterIP>>, service.ports, 1)

deleteConntrackForService(service) ==
  VIPPurges(service.externalIPs \o service.ingress, service.ports, 1)
  \o (IF ServiceTypeHasNodePort(service)
      THEN NodePortPurges(NodeIPList, service.ports, 1) ELSE <<>>)
  \o VIPPurges(<<service.clusterIP>>, service.ports, 1)

DeleteService(st, service, L) ==
  IF ~ServiceTypeHasClusterIP(service) \/ ~IsClusterIPSet(service) THEN NoErr(st)
  ELSE
    LET r == getAndDeleteServiceInfo(st.si, service.name)
        svcConfig == r.old
        st1 == [st EXCEPT !.si = r.si]
        st2 == IF r.exists
               THEN delServiceRules(NoErr(st1), svcConfig.service,
                                    List(svcConfig.localEndpoints), L.iptOK)
               ELSE NoErr(st1)
    IN [st2 EXCEPT !.ops = st2.ops \o deleteConntrackForService(service)]

\* a chain list that begins with the external-traffic-policy chain
SyncChains_ETPFirst == << <<"nat", "OVN-KUBE-ETP">>, <<"nat", "OVN-KUBE-ITP">>,
                          <<"nat", "OVN-KUBE-EGRESS-SVC">>, <<"nat", "OVN-KUBE-NODEPORT">>,
                          <<"nat", "OVN-KUBE-EXTERNALIP">>,
                          <<"nat", "OVN-KUBE-SNAT-MGMTPORT">>,
                          <<"mangle", "OVN-KUBE-ITP">> >>

\* the chains SyncServices recreates, in the order of the code
SyncChains == << <<"nat", "OVN-KUBE-ITP">>, <<"nat", "OVN-KUBE-EGRESS-SVC">>,
                 <<"nat", "OVN-KUBE-NODEPORT">>, <<"nat", "OVN-KUBE-EXTERNALIP">>,
                 <<"nat", "OVN-KUBE-ETP">>, <<"nat", "OVN-KUBE-SNAT-MGMTPORT">>,
                 <<"mangle", "OVN-KUBE-ITP">> >>

RECURSIVE RecreateAll(_, _, _, _)
RecreateAll(st, keepIPTRules, i, iptOK) ==
  IF i > Len(SyncChains) THEN st
  ELSE RecreateAll(
         [st EXCEPT
            !.ipt = recreateIPTRules(st.ipt, SyncChains[i][1], SyncChains[i][2],
                                     keepIPTRules, iptOK),
            !.ops = Append(st.ops, Op("recreateIPTRules", SyncChains[i][1],
                                      SyncChains[i][2], 0)),
            !.err = st.err \/ ~iptOK],
         keepIPTRules, i + 1, iptOK)

\* a loop that, like AddService, stores the flows only for a service that had
\* no record yet
RECURSIVE SyncLoop_AddOnlyWhenUntracked(_, _, _, _, _)
SyncLoop_AddOnlyWhenUntracked(st, keepIPTRules, services, i, L) ==
  IF i > Len(services) THEN [st |-> st, keep |-> keepIPTRules]
  ELSE
    LET service == services[i]
        localEndpoints == GetLocalEndpointAddresses(GetEndpointSlices(L, service.name))
        hasLocalHostNetworkEp == HasLocalHostNetworkEndpoints(localEndpoints, currentNodeIPs)
        r == getAndSetServiceInfo(st.si, service.name, service,
                                  hasLocalHostNetworkEp, localEndpoints)
        r1 == updateServiceFlowCache(st.fc, service, FALSE, hasLocalHostNetworkEp)
        r2 == IF r.exists THEN r1
              ELSE updateServiceFlowCache(r1.fc, service, TRUE, hasLocalHostNetworkEp)
    IN SyncLoop_AddOnlyWhenUntracked(
         [st EXCEPT !.si = r.si, !.fc = r2.fc,
                    !.ops = Append(st.ops, Op("updateServiceFlowCache", service.name, "del", 0))],
         keepIPTRules \cup getGatewayIPTRules(service, List(localEndpoints),
                                              hasLocalHostNetworkEp),
         services, i + 1, L)

\* the per-service loop of SyncServices: the state and the keep list after
\* the services from position i on
RECURSIVE SyncLoop(_, _, _, _, _)
SyncLoop(st, keepIPTRules, services, i, L) ==
  IF i > Len(services) THEN [st |-> st, keep |-> keepIPTRules]
  ELSE
    LET service == services[i]
    IN IF SlicesNotFound(L, service.name)
       THEN SyncLoop(st, keepIPTRules, services, i + 1, L)
       ELSE
         LET epSlices == GetEndpointSlices(L, service.name)
             localEndpoints == GetLocalEndpointAddresses(epSlices)
             hasLocalHostNetworkEp == HasLocalHostNetworkEndpoints(localEndpoints, currentNodeIPs)
             r1 == updateServiceFlowCache(st.fc, service, FALSE, hasLocalHostNetworkEp)
             r2 == updateServiceFlowCache(r1.fc, service, TRUE, hasLocalHostNetworkEp)
             st1 == [st EXCEPT
                       !.si = getAndSetServiceInfo(st.si, service.name, service,
                                                   hasLocalHostNetworkEp, localEndpoints).si,
                       !.fc = r2.fc,
                       !.ops = st.ops \o << Op("updateServiceFlowCache", service.name, "del", 0),
                                            Op("updateServiceFlowCache", service.name, "add", 0) >>,
                       !.err = st.err \/ r1.err \/ r2.err]
         IN SyncLoop(st1,
                     IF dpuMode THEN keepIPTRules
                     ELSE keepIPTRules
                          \cup getGatewayIPTRules(service, List(localEndpoints),
                                                  hasLocalHostNetworkEp),
                     services, i + 1, L)

\* a SyncServices that drops the records of the services it is not given
SyncServices_DropsUnlisted(st, services, L) ==
  LET listed == { services[i].name : i \in 1..Len(services) }
      st0 == [NoErr(st) EXCEPT !.si = [k \in DOMAIN st.si \cap listed |-> st.si[k]]]
      loop == SyncLoop(st0, {}, services, 1, L)
      st1 == [loop.st EXCEPT
                !.ch = requestFlowSync(loop.st.ch),
                !.ops = Append(loop.st.ops, Op("requestFlowSync", "", "", 0))]
  IN IF dpuMode THEN st1 ELSE RecreateAll(st1, loop.keep, 1, L.iptOK)

\* a SyncServices that requests the flow sync before it rewrites the entries
SyncServices_SyncsBeforeLoop(st, services, L) ==
  LET st0 == [NoErr(st) EXCEPT
                !.ch = requestFlowSync(st.ch),
                !.ops = Append(st.ops, Op("requestFlowSync", "", "", 0))]
      loop == SyncLoop(st0, {}, services, 1, L)
  IN IF dpuMode THEN loop.st ELSE RecreateAll(loop.st, loop.keep, 1, L.iptOK)

SyncServices(st, services, L) ==
  LET loop == SyncLoop(NoErr(st), {}, services, 1, L)
      st1 == [loop.st EXCEPT
                !.ch = requestFlowSync(loop.st.ch),
                !.ops = Append(loop.st.ops, Op("requestFlowSync", "", "", 0))]
  IN IF dpuMode THEN st1 ELSE RecreateAll(st1, loop.keep, 1, L.iptOK)

\* an AddEndpointSlice that compares the local endpoints for every service,
\* with or without node-port allocation
AddEndpointSlice_ComparesEndpointsAlways(st, epSlice, L) ==
  IF ~ServiceFound(L, epSlice.label) THEN NoErr(st)
  ELSE
    LET svc == L.svcs[epSlice.label]
        localEndpoints == GetLocalEndpointAddresses(GetEndpointSlices(L, svc.name))
        hasLocalHostNetworkEp == HasLocalHostNetworkEndpoints(localEndpoints, currentNodeIPs)
        r == getAndSetServiceInfo(st.si, epSlice.label, svc,
                                  hasLocalHostNetworkEp, localEndpoints)
        st1 == [st EXCEPT !.si = r.si]
    IN IF ~ServiceTypeHasClusterIP(svc) \/ ~IsClusterIPSet(svc) THEN NoErr(st)
       ELSE IF ~r.exists
       THEN addServiceRules(st1, svc, List(localEndpoints), hasLocalHostNetworkEp, L.iptOK)
       ELSE IF \/ r.old.hasLocalHostNetworkEp # hasLocalHostNetworkEp
               \/ r.old.localEndpoints # localEndpoints
       THEN addServiceRules(delServiceRules(NoErr(st1), svc, List(r.old.localEndpoints),
                                            L.iptOK),
                            svc, List(localEndpoints), hasLocalHostNetworkEp, L.iptOK)
       ELSE NoErr(st1)

\* an AddEndpointSlice that computes the endpoint state from the slice of the
\* event alone
AddEndpointSlice_OnlyEventSlice(st, epSlice, L) ==
  IF ~ServiceFound(L, epSlice.label) THEN NoErr(st)
  ELSE
    LET svc == L.svcs[epSlice.label]
    IN IF ~ServiceTypeHasClusterIP(svc) \/ ~IsClusterIPSet(svc) THEN NoErr(st)
       ELSE IF SlicesNotFound(L, svc.name) THEN [st EXCEPT !.err = TRUE]
       ELSE
         LET epSlices == {epSlice}
             localEndpoints == GetLocalEndpointAddresses(epSlices)
             hasLocalHostNetworkEp == HasLocalHostNetworkEndpoints(localEndpoints, currentNodeIPs)
         IN IF ~HasServiceLabel(epSlice) THEN [st EXCEPT !.err = TRUE]
            ELSE
              LET r == getAndSetServiceInfo(st.si, epSlice.label, svc,
                                            hasLocalHostNetworkEp, localEndpoints)
                  st1 == [st EXCEPT !.si = r.si]
              IN IF ~r.exists
                 THEN addServiceRules(st1, svc, List(localEndpoints),
                                      hasLocalHostNetworkEp, L.iptOK)
                 ELSE
                   LET out == r.old
                   IN IF \/ out.hasLocalHostNetworkEp # hasLocalHostNetworkEp
                         \/ (/\ ~LoadBalancerServiceHasNodePortAllocation(svc)
                             /\ out.localEndpoints # localEndpoints)
                      THEN LET st2 == delServiceRules(NoErr(st1), svc,
                                                      List(out.localEndpoints), L.iptOK)
                               st3 == addServiceRules(st2, svc, List(localEndpoints),
                                                      hasLocalHostNetworkEp, L.iptOK)
                           IN [st3 EXCEPT !.err = st2.err \/ st3.err]
                      ELSE NoErr(st1)

AddEndpointSlice(st, epSlice, L) ==
  IF ~ServiceFound(L, epSlice.label) THEN NoErr(st)
  ELSE
    LET svc == L.svcs[epSlice.label]
    IN IF ~ServiceTypeHasClusterIP(svc) \/ ~IsClusterIPSet(svc) THEN NoErr(st)
       ELSE IF SlicesNotFound(L, svc.name) THEN [st EXCEPT !.err = TRUE]
       ELSE
         LET epSlices == GetEndpointSlices(L, svc.name)
             localEndpoints == GetLocalEndpointAddresses(epSlices)
             hasLocalHostNetworkEp == HasLocalHostNetworkEndpoints(localEndpoints, currentNodeIPs)
         IN IF ~HasServiceLabel(epSlice) THEN [st EXCEPT !.err = TRUE]
            ELSE
              LET r == getAndSetServiceInfo(st.si, epSlice.label, svc,
                                            hasLocalHostNetworkEp, localEndpoints)
                  st1 == [st EXCEPT !.si = r.si]
              IN IF ~r.exists
                 THEN addServiceRules(st1, svc, List(localEndpoints),
                                      hasLocalHostNetworkEp, L.iptOK)
                 ELSE
                   LET out == r.old
                   IN IF \/ out.hasLocalHostNetworkEp # hasLocalHostNetworkEp
                         \/ (/\ ~LoadBalancerServiceHasNodePortAllocation(svc)
                             /\ out.localEndpoints # localEndpoints)
                      THEN LET st2 == delServiceRules(NoErr(st1), svc,
                                                      List(out.localEndpoints), L.iptOK)
                               st3 == addServiceRules(st2, svc, List(localEndpoints),
                                                      hasLocalHostNetworkEp, L.iptOK)
                           IN [st3 EXCEPT !.err = st2.err \/ st3.err]
                      ELSE NoErr(st1)

DeleteEndpointSlice(st, epSlice, L) ==
  IF ~HasServiceLabel(epSlice) THEN [st EXCEPT !.err = TRUE]
  ELSE
    LET epSlices == IF SlicesNotFound(L, epSlice.label) THEN {epSlice}
                    ELSE GetEndpointSlices(L, epSlice.label)
        localEndpoints == GetLocalEndpointAddresses(epSlices)
        r == updateServiceInfo(st.si, epSlice.label, FALSE, BaseSvc, TRUE, FALSE,
                               localEndpoints)
    IN IF r.exists
       THEN LET svcConfig == r.old
                st1 == [st EXCEPT !.si = r.si]
                st2 == delServiceRules(NoErr(st1), svcConfig.service,
                                       List(svcConfig.localEndpoints), L.iptOK)
                st3 == addServiceRules(st2, svcConfig.service, List(localEndpoints),
                                       FALSE, L.iptOK)
            IN [st3 EXCEPT !.err = st2.err \/ st3.err]
       ELSE NoErr(st)

UpdateEndpointSlice(st, oldEpSlice, newEpSlice, L) ==
  IF ~HasServiceLabel(newEpSlice) THEN [st EXCEPT !.err = TRUE]
  ELSE IF GetEndpointAddresses({oldEpSlice}) = GetEndpointAddresses({newEpSlice})
  THEN NoErr(st)
  ELSE
    LET name == newEpSlice.label
        exists == getServiceInfo(st.si, name).exists
        \* first step: no record -> AddEndpointSlice(new); record and an
        \* empty new slice -> DeleteEndpointSlice(old)
        st1 == IF ~exists THEN AddEndpointSlice(NoErr(st), newEpSlice, L)
               ELSE IF GetEndpointAddresses({newEpSlice}) = {}
               THEN DeleteEndpointSlice(NoErr(st), oldEpSlice, L)
               ELSE NoErr(st)
        \* info (serviceInfo in the code) points at the record found before the first step;
        \* DeleteEndpointSlice updates that record in place
        hasInfo == exists
        info == IF exists /\ GetEndpointAddresses({newEpSlice}) = {}
                       THEN st1.si[name] ELSE st.si[name]
        epSlices == GetEndpointSlices(L, name)
        oldLocalEndpoints == GetLocalEndpointAddresses({oldEpSlice})
        newLocalEndpoints == GetLocalEndpointAddresses(epSlices)
        hasLocalHostNetworkEpOld == HasLocalHostNetworkEndpoints(oldLocalEndpoints, currentNodeIPs)
        hasLocalHostNetworkEpNew == HasLocalHostNetworkEndpoints(newLocalEndpoints, currentNodeIPs)
        localEndpointsHaveChanged ==
          hasInfo /\ info.localEndpoints # newLocalEndpoints
        localHostNetworkEndpointsPresenceHasChanged ==
          \/ hasLocalHostNetworkEpOld # hasLocalHostNetworkEpNew
          \/ (hasInfo /\ info.hasLocalHostNetworkEp # hasLocalHostNetworkEpNew)
    IN IF localEndpointsHaveChanged \/ localHostNetworkEndpointsPresenceHasChanged
       THEN LET st2 == DeleteEndpointSlice(st1, oldEpSlice, L)
                st3 == AddEndpointSlice(st2, newEpSlice, L)
            IN [st3 EXCEPT !.err = st1.err \/ st2.err \/ st3.err]
       ELSE st1

\* ------------------------------------------------------------ the system
EmptyMap == [k \in {} |-> 0]

DefaultKey(t) == [t |-> t, name |-> "", id |-> "", port |-> 0]

\* what the handlers see of the listers
Lister(svcs, slices, nf, iptOK) == [svcs |-> svcs, slices |-> slices, nf |-> nf, iptOK |-> iptOK]

Cur == [si |-> serviceInfo, fc |-> flowCache, ch |-> flowChan, ipt |-> ipt,
        ops |-> <<>>, err |-> FALSE]

VARIABLE race   \* a DeleteEndpointSlice and a DeleteService that run concurrently:
                \* the position and the locals of each, and serviceInfoLock

\* no concurrent pair of handlers is running
RaceIdle ==
  [des |-> "idle", ds |-> "idle", lock |-> "",
   epSlice |-> [label |-> NoLabel, eps |-> {}], service |-> BaseSvc,
   desConfig |-> serviceConfig(BaseSvc, FALSE, NilSet), localEndpoints |-> NilSet,
   dsConfig |-> serviceConfig(BaseSvc, FALSE, NilSet), dsOther |-> "idle",
   aes |-> "idle", hasLocalHostNetworkEp |-> FALSE,
   out |-> serviceConfig(BaseSvc, FALSE, NilSet)]

VARIABLE bridgeFlows   \* the flow table of the bridge, as the apply loop wrote it last

\* the bulk replace of the apply loop: the union of all entries of the cache
FlowTable(fc) == { [cookie |-> k, flows |-> fc[k]] : k \in DOMAIN fc }

\* flowsForDefaultBridge: the DEFAULT flows; per enabled family one hairpin
\* flow for every address of the list other than the physical IP of the
\* bridge and the masquerade IP
flowsForDefaultBridge(extraIPs) ==
  [kind |-> "DEFAULT", dst |-> "", tp |-> "",
   hairpin |-> { ip \in extraIPs :
                   \/ /\ IPv4Mode /\ ~IsIPv6String(ip)
                      /\ ip # gatewayIPv4 /\ ip # V4HostMasqueradeIP
                   \/ /\ IPv6Mode /\ IsIPv6String(ip)
                      /\ ip # gatewayIPv6 /\ ip # V6HostMasqueradeIP }]

\* an updateBridgeFlowCache that leaves an existing DEFAULT entry as it is
updateBridgeFlowCache_KeepsDefault(fc, extraIPs) ==
  [k \in DOMAIN fc \cup {DefaultKey("NORMAL"), DefaultKey("DEFAULT")} |->
     IF k = DefaultKey("NORMAL") THEN Flows("NORMAL", "", "")
     ELSE IF k \in DOMAIN fc THEN fc[k]
     ELSE flowsForDefaultBridge(extraIPs)]

\* updateBridgeFlowCache: the NORMAL and the DEFAULT entry are rewritten
updateBridgeFlowCache(fc, extraIPs) ==
  [k \in DOMAIN fc \cup {DefaultKey("NORMAL"), DefaultKey("DEFAULT")} |->
     IF k = DefaultKey("NORMAL") THEN Flows("NORMAL", "", "")
     ELSE IF k = DefaultKey("DEFAULT") THEN flowsForDefaultBridge(extraIPs)
     ELSE fc[k]]

VARIABLE ovs   \* the CNI side: the vswitch database (ports configured, ports
               \* marked ovn-installed) and the ConfigureOVS call in progress

Pods == 1..MaxPods

\* no ConfigureOVS call has been made
OVSIdle == [pos |-> "idle", pod |-> 0, ports |-> {}, installed |-> {},
            expired |-> FALSE, err |-> ""]

\* a wait that goes on after the deadline until the port is installed
waitForPodInterface_IgnoresDeadline(installed, expired) ==
  IF installed THEN "ok" ELSE "waiting"

\* the wait for ovn-installed under the caller's context: it ends with a
\* timed-out error when the deadline came first, with success when the port
\* is marked installed, and goes on otherwise
waitForPodInterface(installed, expired) ==
  IF expired THEN "timed out"
  ELSE IF installed THEN "ok"
  ELSE "waiting"

VARIABLE gen   \* the generation of the bridge's static flows: the configuration
               \* it reads and the flow list it produced

\* no configuration has been read yet
GenIdle == [pos |-> "idle", config |-> <<>>, bridge |-> <<>>, extraIPs |-> <<>>,
            flows |-> <<>>, err |-> ""]

VARIABLE egress   \* the egress service controller: the EndpointSlices its lister
                  \* holds and the endpoint sets allEndpointsFor returned

\* allEndpointsFor has not been called
EgressIdle == [pos |-> "idle", interconnect |-> FALSE, listed |-> {}, listErr |-> FALSE,
               out |-> <<>>]

VARIABLE locks   \* the mutexes of the watcher and of the openflowManager: the
                 \* handler each goroutine runs, how far it has come in its lock
                 \* operations, and the holder of each mutex

Goroutines == {"service", "endpointslice", "sync", "address"}
Mutexes == {"serviceInfoLock", "gatewayIPLock", "gatewayBridge", "flowMutex"}

\* no handler is running and no mutex is held
LocksIdle == [handler |-> [g \in Goroutines |-> ""], pc |-> [g \in Goroutines |-> 1],
              holder |-> [m \in Mutexes |-> ""]]

VARIABLE gateway   \* the shared gateway and its address-change callback: whether a
                   \* nodePortWatcher exists, the addresses of the bridge, the
                   \* gateway IPs the watcher holds, the DNAT destinations of the
                   \* service flows in the cache, and how far the callback has come

\* the address lists the gateway bridge may hold
BridgeIPLists == { <<"192.168.1.1", "fd00::1">>, <<"192.168.1.2", "fd00::1">>,
                   <<"192.168.1.2", "fd00::2">> }

\* newSharedGateway has not run yet
GatewayIdle == [pos |-> "new", nodePortWatcher |-> FALSE,
                ips |-> <<"192.168.1.1", "fd00::1">>,
                gatewayIPv4 |-> "", gatewayIPv6 |-> "",
                defaultFor |-> <<>>, cache |-> <<>>, flowChan |-> 0]

VARIABLE cni   \* the CNI shim (Plugin.CmdAdd / CmdDel): the command, what the
               \* request to the CNI server will meet, the values cmdCommon
               \* returned, the error variable of the command, the steps done so
               \* far and where the command stands

\* a nil *Response
NilResponse == [nil |-> TRUE, Result |-> FALSE]

\* no command has been called
CNIIdle == [pos |-> "idle", cmd |-> "", env |-> <<>>, response |-> NilResponse, errC |-> "nil",
            err |-> "nil", done |-> {}, returned |-> ""]

\* the state of the parts that run beside the Service and EndpointSlice handlers
sideVars == <<gen, egress, locks, gateway, cni>>


\* a handler call has run to completion with result st
Commit(st, call, iptOK) ==
  /\ budget > 0
  /\ race = RaceIdle
  /\ UNCHANGED <<race, bridgeFlows, nodeAddrs, ovs, sideVars>>
  /\ budget' = budget - 1
  /\ failBudget' = IF iptOK THEN failBudget ELSE failBudget - 1
  /\ UNCHANGED listerNF
  /\ serviceInfo' = st.si
  /\ flowCache' = st.fc
  /\ flowChan' = st.ch
  /\ ipt' = st.ipt
  /\ lastOps' = st.ops
  /\ lastErr' = st.err
  /\ lastCall' = call
  /\ failed' = (failed \/ ~iptOK)

VARIABLE addPending   \* the lister holds a new Service whose add event is not delivered yet

allVars == <<vars, addPending, race, bridgeFlows, nodeAddrs, ovs, sideVars>>

\* what a step of one of these parts leaves alone
SideStep(call) ==
  /\ lastCall' = call
  /\ UNCHANGED <<gwMode, apiSvc, apiSlices, serviceInfo, flowCache, flowChan, ipt, lastOps,
                 lastErr, failed, failBudget, budget, listerNF, addPending, race,
                 bridgeFlows, nodeAddrs, ovs>>

\* newGatewayOpenFlowManager stores the bridge's NORMAL and DEFAULT entries;
\* newNodePortWatcher starts with an empty record map
Start ==
  /\ gwMode \in {"shared", "local"}
  /\ apiSvc = EmptyMap
  /\ apiSlices = EmptyMap
  /\ serviceInfo = EmptyMap
  /\ nodeAddrs = {}
  /\ flowCache = updateBridgeFlowCache(EmptyMap, ListAddresses(nodeAddrs))
  /\ flowChan = 0
  /\ ipt = {}
  /\ lastCall = "init"
  /\ lastOps = <<>>
  /\ lastErr = FALSE
  /\ failed = FALSE
  /\ addPending = FALSE
  /\ race = RaceIdle
  /\ bridgeFlows = {}
  /\ ovs = OVSIdle
  /\ gen = GenIdle
  /\ egress = EgressIdle
  /\ locks = LocksIdle
  /\ gateway = GatewayIdle
  /\ cni = CNIIdle

\* runs in which the backends never fail and the listers answer every List
Init == Start /\ listerNF = FALSE /\ budget = MaxEvents /\ failBudget = 0

\* runs in which the iptables backend may fail
InitFail == Start /\ listerNF = FALSE /\ budget = MaxFailEvents /\ failBudget = MaxFailures

\* runs in which the EndpointSlice lister answers not-found for a service
\* that has no slice left
InitNotFound == Start /\ listerNF = TRUE /\ budget = MaxEvents /\ failBudget = 0

\* runs that end with a DeleteEndpointSlice and a DeleteService in parallel
InitRace == Start /\ listerNF = FALSE /\ budget = MaxRaceEvents /\ failBudget = 0

\* runs in which the apply loop of the openflowManager is running
InitSync == Start /\ listerNF = FALSE /\ budget = MaxSyncEvents /\ failBudget = 0

\* runs in which the node's addresses change and the apply loop is running
InitAddr == Start /\ listerNF = FALSE /\ budget = MaxAddrEvents /\ failBudget = 0

\* the iptables backend may fail during at most MaxFailures calls
Backend == IF failBudget > 0 THEN BOOLEAN ELSE {TRUE}

\* the API server creates the Service: the informer's lister holds it before
\* the add event reaches the Service handler
ApiCreateService ==
  \E s \in Services :
    /\ s.name \notin DOMAIN apiSvc
    /\ ~addPending
    /\ apiSvc' = [k \in {s.name} |-> s]
    /\ addPending' = TRUE
    /\ budget > 0
    /\ race = RaceIdle
    /\ lastCall' = "ApiCreateService"
    /\ UNCHANGED <<gwMode, apiSlices, serviceInfo, flowCache, flowChan, ipt,
                   lastOps, lastErr, failed, failBudget, budget, listerNF, race,
                   bridgeFlows, nodeAddrs, ovs, sideVars>>

DoAddService ==
  \E iptOK \in Backend :
    /\ addPending
    /\ Commit(AddService(Cur, apiSvc[SvcName], Lister(apiSvc, apiSlices, listerNF, iptOK)),
              "AddService", iptOK)
    /\ addPending' = FALSE
    /\ UNCHANGED <<gwMode, apiSvc, apiSlices>>

\* the Service changes and UpdateService(old, new) runs
DoUpdateService ==
  \E s \in Services, iptOK \in Backend :
    /\ s.name \in DOMAIN apiSvc
    /\ ~addPending
    /\ apiSvc[s.name] # s
    /\ apiSvc' = [apiSvc EXCEPT ![s.name] = s]
    /\ Commit(UpdateService(Cur, apiSvc[s.name], s, Lister(apiSvc', apiSlices, listerNF, iptOK)),
              "UpdateService", iptOK)
    /\ UNCHANGED <<gwMode, apiSlices, addPending>>

\* the Service is removed and DeleteService runs with its last state
DoDeleteService ==
  \E iptOK \in Backend :
    /\ SvcName \in DOMAIN apiSvc
    /\ ~addPending
    /\ apiSvc' = EmptyMap
    /\ Commit(DeleteService(Cur, apiSvc[SvcName], Lister(apiSvc', apiSlices, listerNF, iptOK)),
              "DeleteService", iptOK)
    /\ UNCHANGED <<gwMode, apiSlices, addPending>>

\* the services the lister holds, as SyncServices receives them
SvcList == IF SvcName \in DOMAIN apiSvc THEN <<apiSvc[SvcName]>> ELSE <<>>

DoSyncServices ==
  \E iptOK \in Backend :
    /\ Commit(SyncServices(Cur, SvcList, Lister(apiSvc, apiSlices, listerNF, iptOK)),
              IF lastCall = "SyncServices" THEN "SyncServices again" ELSE "SyncServices",
              iptOK)
    /\ UNCHANGED <<gwMode, apiSvc, apiSlices, addPending>>

\* EndpointSlice events: the lister already holds the change when the
\* handler runs
DoAddEndpointSlice ==
  \E i \in SliceIds, sl \in EndpointSlices, iptOK \in Backend :
    /\ i \notin DOMAIN apiSlices
    /\ apiSlices' = [j \in DOMAIN apiSlices \cup {i} |-> IF j = i THEN sl ELSE apiSlices[j]]
    /\ Commit(AddEndpointSlice(Cur, sl, Lister(apiSvc, apiSlices', listerNF, iptOK)),
              "AddEndpointSlice", iptOK)
    /\ UNCHANGED <<gwMode, apiSvc, addPending>>

DoUpdateEndpointSlice ==
  \E i \in SliceIds, sl \in EndpointSlices, iptOK \in Backend :
    /\ i \in DOMAIN apiSlices
    /\ sl # apiSlices[i]
    /\ sl.label = apiSlices[i].label
    /\ apiSlices' = [apiSlices EXCEPT ![i] = sl]
    /\ Commit(UpdateEndpointSlice(Cur, apiSlices[i], sl, Lister(apiSvc, apiSlices', listerNF, iptOK)),
              "UpdateEndpointSlice", iptOK)
    /\ UNCHANGED <<gwMode, apiSvc, addPending>>

DoDeleteEndpointSlice ==
  \E i \in SliceIds, iptOK \in Backend :
    /\ i \in DOMAIN apiSlices
    /\ apiSlices' = [j \in DOMAIN apiSlices \ {i} |-> apiSlices[j]]
    /\ Commit(DeleteEndpointSlice(Cur, apiSlices[i], Lister(apiSvc, apiSlices', listerNF, iptOK)),
              "DeleteEndpointSlice", iptOK)
    /\ UNCHANGED <<gwMode, apiSvc, addPending>>

Next ==
  \/ ApiCreateService
  \/ DoAddService
  \/ DoUpdateService
  \/ DoDeleteService
  \/ DoSyncServices
  \/ DoAddEndpointSlice
  \/ DoUpdateEndpointSlice
  \/ DoDeleteEndpointSlice

Spec == Init /\ [][Next]_allVars

SpecNotFound == InitNotFound /\ [][Next]_allVars

SpecFail == InitFail /\ [][Next]_allVars

\* ------------------------------------------------------------------
\* DeleteEndpointSlice and DeleteService of the same service, each on the
\* goroutine of its own informer. A step is one call that runs under a lock of
\* its own: an accessor of the record map (serviceInfoLock, taken and released
\* inside the accessor), addServiceRules or delServiceRules.

\* a step of one of the two handlers leaves st behind
RaceStep(st, call, r) ==
  /\ race' = r
  /\ serviceInfo' = st.si
  /\ flowCache' = st.fc
  /\ flowChan' = st.ch
  /\ ipt' = st.ipt
  /\ lastOps' = lastOps \o st.ops
  /\ lastErr' = (lastErr \/ st.err)
  /\ lastCall' = call
  /\ UNCHANGED <<gwMode, apiSvc, apiSlices, failed, failBudget, budget, listerNF, addPending,
                 bridgeFlows, nodeAddrs, ovs, sideVars>>

\* a service of another key, which the watcher does not track
SvcOther == [BaseSvc EXCEPT !.name = "ns1/svc-b"]

\* a Lock that returns without taking the mutex
serviceInfoLock_Lock_NotTaken(r, holder) == r

\* npw.serviceInfoLock.Lock() by a handler that keeps the mutex after the call
serviceInfoLock_Lock(r, holder) == [r EXCEPT !.lock = holder]

\* the Service and one of its EndpointSlices are deleted, and so is a Service
\* of another key; the three delete events are delivered
StartRace ==
  \E i \in DOMAIN apiSlices :
    /\ race = RaceIdle
    /\ ~addPending
    /\ SvcName \in DOMAIN apiSvc
    /\ apiSvc' = EmptyMap
    /\ apiSlices' = [j \in DOMAIN apiSlices \ {i} |-> apiSlices[j]]
    /\ race' = [race EXCEPT !.des = "updateServiceInfo", !.ds = "getAndDeleteServiceInfo",
                            !.epSlice = apiSlices[i], !.service = apiSvc[SvcName],
                            !.dsOther = "getAndDeleteServiceInfo"]
    /\ lastCall' = "StartRace"
    /\ lastOps' = <<>>
    /\ UNCHANGED <<gwMode, serviceInfo, flowCache, flowChan, ipt, lastErr, failed,
                   failBudget, budget, listerNF, addPending, bridgeFlows, nodeAddrs, ovs, sideVars>>

\* DeleteEndpointSlice up to the return of updateServiceInfo, which releases
\* serviceInfoLock
DES_updateServiceInfo ==
  /\ race.des = "updateServiceInfo"
  /\ race.lock = ""
  /\ LET L == Lister(apiSvc, apiSlices, listerNF, TRUE)
         epSlices == IF SlicesNotFound(L, race.epSlice.label) THEN {race.epSlice}
                     ELSE GetEndpointSlices(L, race.epSlice.label)
         localEndpoints == GetLocalEndpointAddresses(epSlices)
         r == updateServiceInfo(serviceInfo, race.epSlice.label, FALSE, BaseSvc, TRUE,
                                FALSE, localEndpoints)
     IN RaceStep([Cur EXCEPT !.si = r.si], "DES_updateServiceInfo",
                 [race EXCEPT !.des = IF r.exists THEN "Lock" ELSE "done",
                              !.desConfig = r.old, !.localEndpoints = localEndpoints])

\* npw.serviceInfoLock.Lock() in DeleteEndpointSlice
DES_Lock ==
  /\ race.des = "Lock"
  /\ race.lock = ""
  /\ RaceStep(Cur, "DES_Lock",
              serviceInfoLock_Lock([race EXCEPT !.des = "delServiceRules"], "DES"))

DES_delServiceRules ==
  /\ race.des = "delServiceRules"
  /\ RaceStep(delServiceRules(Cur, race.desConfig.service,
                              List(race.desConfig.localEndpoints), TRUE),
              "DES_delServiceRules", [race EXCEPT !.des = "addServiceRules"])

\* addServiceRules, then the deferred Unlock on return
DES_addServiceRules ==
  /\ race.des = "addServiceRules"
  /\ RaceStep(addServiceRules(Cur, race.desConfig.service, List(race.localEndpoints),
                              FALSE, TRUE),
              "DES_addServiceRules", [race EXCEPT !.des = "done", !.lock = ""])

\* DeleteService up to the return of getAndDeleteServiceInfo
DS_getAndDeleteServiceInfo ==
  /\ race.ds = "getAndDeleteServiceInfo"
  /\ race.lock = ""
  /\ IF ~ServiceTypeHasClusterIP(race.service) \/ ~IsClusterIPSet(race.service)
     THEN RaceStep(Cur, "DS_return", [race EXCEPT !.ds = "done"])
     ELSE LET r == getAndDeleteServiceInfo(serviceInfo, race.service.name)
          IN RaceStep([Cur EXCEPT !.si = r.si], "DS_getAndDeleteServiceInfo",
                      [race EXCEPT !.ds = IF r.exists THEN "delServiceRules"
                                          ELSE "deleteConntrackForService",
                                   !.dsConfig = r.old])

DS_delServiceRules ==
  /\ race.ds = "delServiceRules"
  /\ RaceStep(delServiceRules(Cur, race.dsConfig.service,
                              List(race.dsConfig.localEndpoints), TRUE),
              "DS_delServiceRules", [race EXCEPT !.ds = "deleteConntrackForService"])

DS_deleteConntrackForService ==
  /\ race.ds = "deleteConntrackForService"
  /\ RaceStep([Cur EXCEPT !.ops = deleteConntrackForService(race.service)],
              "DS_deleteConntrackForService", [race EXCEPT !.ds = "done"])

\* DeleteService of the other key up to the return of getAndDeleteServiceInfo,
\* which takes serviceInfoLock; no record of that key exists in these runs
DSO_getAndDeleteServiceInfo ==
  /\ race.dsOther = "getAndDeleteServiceInfo"
  /\ race.lock = ""
  /\ LET r == getAndDeleteServiceInfo(serviceInfo, SvcOther.name)
     IN RaceStep([Cur EXCEPT !.si = r.si], "DSO_getAndDeleteServiceInfo",
                 [race EXCEPT !.dsOther = "deleteConntrackForService"])

DSO_deleteConntrackForService ==
  /\ race.dsOther = "deleteConntrackForService"
  /\ RaceStep([Cur EXCEPT !.ops = deleteConntrackForService(SvcOther)],
              "DSO_deleteConntrackForService", [race EXCEPT !.dsOther = "done"])

NextRace ==
  \/ Next
  \/ DSO_getAndDeleteServiceInfo
  \/ DSO_deleteConntrackForService
  \/ StartRace
  \/ DES_updateServiceInfo
  \/ DES_Lock
  \/ DES_delServiceRules
  \/ DES_addServiceRules
  \/ DS_getAndDeleteServiceInfo
  \/ DS_delServiceRules
  \/ DS_deleteConntrackForService

SpecRace == InitRace /\ [][NextRace]_allVars

\* ------------------------------------------------------------------
\* AddEndpointSlice and DeleteService of the same service, each on the
\* goroutine of its own informer

\* an EndpointSlice of the service is created and AddEndpointSlice reads the
\* Service and its slices from the listers; then the Service is deleted and
\* its delete event is delivered
StartAddRace ==
  \E i \in SliceIds \ DOMAIN apiSlices, epSlice \in EndpointSlices :
    /\ race = RaceIdle
    /\ ~addPending
    /\ SvcName \in DOMAIN apiSvc
    /\ apiSlices' = [j \in DOMAIN apiSlices \cup {i} |-> IF j = i THEN epSlice ELSE apiSlices[j]]
    /\ apiSvc' = EmptyMap
    /\ LET svc == apiSvc[SvcName]
           L == Lister(apiSvc, apiSlices', listerNF, TRUE)
           localEndpoints == GetLocalEndpointAddresses(GetEndpointSlices(L, svc.name))
       IN race' = [race EXCEPT
                     !.aes = IF ~ServiceTypeHasClusterIP(svc) \/ ~IsClusterIPSet(svc)
                             THEN "done" ELSE "getAndSetServiceInfo",
                     !.ds = "getAndDeleteServiceInfo",
                     !.epSlice = epSlice, !.service = svc,
                     !.localEndpoints = localEndpoints,
                     !.hasLocalHostNetworkEp =
                        HasLocalHostNetworkEndpoints(localEndpoints, currentNodeIPs)]
    /\ lastCall' = "StartAddRace"
    /\ lastOps' = <<>>
    /\ UNCHANGED <<gwMode, serviceInfo, flowCache, flowChan, ipt, lastErr, failed,
                   failBudget, budget, listerNF, addPending, bridgeFlows, nodeAddrs, ovs, sideVars>>

\* what AddEndpointSlice does after getAndSetServiceInfo has returned
AES_Decide(exists, out, svc, hasLocalHostNetworkEp, localEndpoints) ==
  IF ~exists THEN "addServiceRules"
  ELSE IF \/ out.hasLocalHostNetworkEp # hasLocalHostNetworkEp
          \/ (/\ ~LoadBalancerServiceHasNodePortAllocation(svc)
              /\ out.localEndpoints # localEndpoints)
    THEN "delServiceRules"
    ELSE "done"

\* AddEndpointSlice up to the return of getAndSetServiceInfo, which releases
\* serviceInfoLock
AES_getAndSetServiceInfo ==
  /\ race.aes = "getAndSetServiceInfo"
  /\ race.lock = ""
  /\ LET r == getAndSetServiceInfo(serviceInfo, race.epSlice.label, race.service,
                                   race.hasLocalHostNetworkEp, race.localEndpoints)
     IN RaceStep([Cur EXCEPT !.si = r.si], "AES_getAndSetServiceInfo",
                 [race EXCEPT !.aes = AES_Decide(r.exists, r.old, race.service,
                                                 race.hasLocalHostNetworkEp,
                                                 race.localEndpoints),
                              !.out = r.old])

AES_delServiceRules ==
  /\ race.aes = "delServiceRules"
  /\ RaceStep(delServiceRules(Cur, race.service, List(race.out.localEndpoints), TRUE),
              "AES_delServiceRules", [race EXCEPT !.aes = "addServiceRules"])

AES_addServiceRules ==
  /\ race.aes = "addServiceRules"
  /\ RaceStep(addServiceRules(Cur, race.service, List(race.localEndpoints),
                              race.hasLocalHostNetworkEp, TRUE),
              "AES_addServiceRules", [race EXCEPT !.aes = "done"])

NextAddRace ==
  \/ Next
  \/ StartAddRace
  \/ AES_getAndSetServiceInfo
  \/ AES_delServiceRules
  \/ AES_addServiceRules
  \/ DS_getAndDeleteServiceInfo
  \/ DS_delServiceRules
  \/ DS_deleteConntrackForService

SpecAddRace == InitRace /\ [][NextAddRace]_allVars

\* ------------------------------------------------------------------

\* the background apply loop of the openflowManager: it takes the pending
\* signal from flowChan and replaces the bridge's flow table by the entries
\* the cache holds at that moment
ApplyLoop ==
  /\ flowChan = 1
  /\ flowChan' = 0
  /\ bridgeFlows' = FlowTable(flowCache)
  /\ lastCall' = "ApplyLoop"
  /\ UNCHANGED <<gwMode, apiSvc, apiSlices, serviceInfo, flowCache, ipt, lastOps, lastErr,
                 failed, failBudget, budget, listerNF, addPending, race, nodeAddrs, ovs, sideVars>>

NextSync == Next \/ ApplyLoop

\* the apply loop is a goroutine of its own that blocks on flowChan only: it
\* runs whenever a signal stays pending
SpecSync == InitSync /\ [][NextSync]_allVars /\ WF_allVars(ApplyLoop)

\* ------------------------------------------------------------------
\* nodeIPManager.OnChanged as newSharedGateway registers it, with a
\* nodePortWatcher: the node's address set has changed; the callback
\* regenerates the bridge flows from the current list, refreshes the gateway
\* IPs of the watcher from the bridge and requests a sync
OnChanged ==
  \E addrs \in SUBSET ExtraAddrs :
    /\ addrs # nodeAddrs
    /\ budget > 0
    /\ race = RaceIdle
    /\ budget' = budget - 1
    /\ nodeAddrs' = addrs
    /\ flowCache' = updateBridgeFlowCache(flowCache, ListAddresses(addrs))
    /\ flowChan' = requestFlowSync(flowChan)
    /\ lastCall' = "OnChanged"
    /\ lastOps' = <<>>
    /\ UNCHANGED <<gwMode, apiSvc, apiSlices, serviceInfo, ipt, lastErr, failed, failBudget,
                   listerNF, addPending, race, bridgeFlows, ovs, sideVars>>

NextAddr ==
  \/ ApiCreateService
  \/ DoAddService
  \/ DoDeleteService
  \/ DoAddEndpointSlice
  \/ OnChanged
  \/ ApplyLoop

SpecAddr == InitAddr /\ [][NextAddr]_allVars /\ WF_allVars(ApplyLoop)

\* ------------------------------------------------------------------
\* EndpointSlice events the informer delivers besides the regular ones: the
\* add event of a slice that has left the lister before the handler runs (a
\* retry), and events for slices that carry no service-name label

\* runs with such events, on a lister that answers not-found
InitEdge == Start /\ listerNF = TRUE /\ budget = MaxEdgeEvents /\ failBudget = 0

\* slices without the service-name label; a listing by service name never
\* returns them
UnlabelledSlices == [label : {NoLabel}, eps : SliceContents]

\* AddEndpointSlice runs for a slice the lister does not hold any more
DoRetryAddEndpointSlice ==
  \E sl \in EndpointSlices, iptOK \in Backend :
    /\ Commit(AddEndpointSlice(Cur, sl, Lister(apiSvc, apiSlices, listerNF, iptOK)),
              "AddEndpointSlice (retry)", iptOK)
    /\ UNCHANGED <<gwMode, apiSvc, apiSlices, addPending>>

DoAddUnlabelledSlice ==
  \E sl \in UnlabelledSlices, iptOK \in Backend :
    /\ Commit(AddEndpointSlice(Cur, sl, Lister(apiSvc, apiSlices, listerNF, iptOK)),
              "AddEndpointSlice (no label)", iptOK)
    /\ UNCHANGED <<gwMode, apiSvc, apiSlices, addPending>>

DoUpdateUnlabelledSlice ==
  \E old \in UnlabelledSlices, new \in UnlabelledSlices, iptOK \in Backend :
    /\ old # new
    /\ Commit(UpdateEndpointSlice(Cur, old, new, Lister(apiSvc, apiSlices, listerNF, iptOK)),
              "UpdateEndpointSlice (no label)", iptOK)
    /\ UNCHANGED <<gwMode, apiSvc, apiSlices, addPending>>

DoDeleteUnlabelledSlice ==
  \E sl \in UnlabelledSlices, iptOK \in Backend :
    /\ Commit(DeleteEndpointSlice(Cur, sl, Lister(apiSvc, apiSlices, listerNF, iptOK)),
              "DeleteEndpointSlice (no label)", iptOK)
    /\ UNCHANGED <<gwMode, apiSvc, apiSlices, addPending>>

NextEdge ==
  \/ Next
  \/ DoRetryAddEndpointSlice
  \/ DoAddUnlabelledSlice
  \/ DoUpdateUnlabelledSlice
  \/ DoDeleteUnlabelledSlice

SpecEdge == InitEdge /\ [][NextEdge]_allVars

\* ------------------------------------------------------------------
\* ConfigureOVS: the CNI writes the port and the interface of a pod to the
\* vswitch database and waits, under the caller's context, until the
\* interface is marked ovn-installed

InitOVS == Start /\ listerNF = FALSE /\ budget = 0 /\ failBudget = 0

\* what a step of the CNI side leaves alone
OVSStep(call) ==
  /\ lastCall' = call
  /\ UNCHANGED <<gwMode, apiSvc, apiSlices, serviceInfo, flowCache, flowChan, ipt, lastOps,
                 lastErr, failed, failBudget, budget, listerNF, addPending, race,
                 bridgeFlows, nodeAddrs, sideVars>>

\* ConfigureOVS is called for a pod and writes the pod's port and interface;
\* the context of the call has not expired
ConfigureOVS_AddPort ==
  \E pod \in Pods :
    /\ ovs.pos \in {"idle", "returned"}
    /\ pod \notin ovs.ports
    /\ ovs' = [ovs EXCEPT !.pos = "wait", !.pod = pod, !.ports = @ \cup {pod},
                          !.expired = FALSE, !.err = ""]
    /\ OVSStep("ConfigureOVS_AddPort")

\* SetInterfaceOVNInstalled: the controller marks a configured port installed
SetInterfaceOVNInstalled ==
  \E pod \in ovs.ports \ ovs.installed :
    /\ ovs' = [ovs EXCEPT !.installed = @ \cup {pod}]
    /\ OVSStep("SetInterfaceOVNInstalled")

\* the deadline of the caller's context passes while the port is not marked
\* installed
ContextDeadline ==
  /\ ovs.pos = "wait"
  /\ ~ovs.expired
  /\ ovs.pod \notin ovs.installed
  /\ ovs' = [ovs EXCEPT !.expired = TRUE]
  /\ OVSStep("ContextDeadline")

\* the wait ends and ConfigureOVS returns
ConfigureOVS_Return ==
  \E r \in {waitForPodInterface(ovs.pod \in ovs.installed, ovs.expired)} :
    /\ ovs.pos = "wait"
    /\ r # "waiting"
    /\ ovs' = [ovs EXCEPT !.pos = "returned", !.err = IF r = "ok" THEN "" ELSE r]
    /\ OVSStep("ConfigureOVS_Return")

NextOVS ==
  \/ ConfigureOVS_AddPort
  \/ SetInterfaceOVNInstalled
  \/ ContextDeadline
  \/ ConfigureOVS_Return

\* the timer of the context fires and the waiting call runs; nothing obliges
\* the controller to mark a port installed
SpecOVS ==
  /\ InitOVS /\ [][NextOVS]_allVars
  /\ WF_allVars(ContextDeadline) /\ WF_allVars(ConfigureOVS_Return)

\* ------------------------------------------------------------------
\* a LoadBalancer service whose status and spec carry addresses that do not
\* parse, before and after addresses that do
SvcBadIPs == [BaseSvc EXCEPT !.type = "LoadBalancer", !.ports = <<Port80NP>>,
                             !.ingress = <<"not-an-ip", "1.2.3.4">>,
                             !.externalIPs = <<"5.6.7.8", "5.6.7">>,
                             !.etp = "Local", !.alloc = "true"]

InitBadIP == Start /\ listerNF = FALSE /\ budget = MaxEdgeEvents /\ failBudget = 0

\* the API server creates the service with the malformed addresses
ApiCreateServiceBadIPs ==
  /\ SvcName \notin DOMAIN apiSvc
  /\ ~addPending
  /\ apiSvc' = [k \in {SvcName} |-> SvcBadIPs]
  /\ addPending' = TRUE
  /\ budget > 0
  /\ race = RaceIdle
  /\ lastCall' = "ApiCreateService"
  /\ UNCHANGED <<gwMode, apiSlices, serviceInfo, flowCache, flowChan, ipt,
                 lastOps, lastErr, failed, failBudget, budget, listerNF, race,
                 bridgeFlows, nodeAddrs, ovs, sideVars>>

NextBadIP == Next \/ ApiCreateServiceBadIPs

SpecBadIP == InitBadIP /\ [][NextBadIP]_allVars

\* ------------------------------------------------------------------
\* flowsForDefaultBridge and commonFlows in full: the static flows of a bridge
\* as a list, each flow with the protocol family of its match ("" for a flow
\* that matches no family) and the gateway mode whose branch emitted it (""
\* for a flow emitted in both modes)

DFlow(fam, id, arg) == [fam |-> fam, mode |-> "", id |-> id, arg |-> arg]
LocalFlow(fam, id, arg) == [fam |-> fam, mode |-> "local", id |-> id, arg |-> arg]
When(cond, flows) == IF cond THEN flows ELSE <<>>

\* util.MatchFirstIPNetFamily: the first address of the family, or an error
MatchFirstIPNetFamily(isIPv6, ips) ==
  LET m == SelectSeq(ips, LAMBDA ip : IsIPv6String(ip) = isIPv6)
  IN IF m = <<>> THEN [ok |-> FALSE, ip |-> ""] ELSE [ok |-> TRUE, ip |-> m[1]]

\* the table 0 flows of one family in flowsForDefaultBridge
DefaultTable0(fam, udp, bridge, physicalIP, masqIP, extraIPs) ==
  LET extra == SelectSeq(extraIPs, LAMBDA ip : /\ IsIPv6String(ip) = (fam = "ipv6")
                                               /\ ip # physicalIP
                                               /\ ip # masqIP)
  IN When(bridge.ofPortPhys # "",
          << DFlow(fam, "p205 in_port=phys dl_dst=mac " \o udp \o " geneve output:host", bridge.ofPortPhys),
             DFlow(fam, "p200 in_port=phys " \o udp \o " geneve NORMAL", bridge.ofPortPhys),
             DFlow(fam, "p200 in_port=LOCAL " \o udp \o " geneve output:phys", bridge.ofPortPhys) >>)
     \o << DFlow(fam, "p500 in_port=patch dst=hostMasq src=physicalIP ct nat(dst=physicalIP) table=4",
                 <<masqIP, physicalIP>>) >>
     \o [ i \in 1..Len(extra) |->
            DFlow(fam, "p500 in_port=patch dst=extraIP src=physicalIP ct table=4",
                  <<extra[i], physicalIP>>) ]
     \o << DFlow(fam, "p500 in_port=host dst=ovnMasq ct nat table=5", "") >>

\* the three flows per service CIDR
ServiceCIDRFlows(cidrs) ==
  LET one(fam) == << DFlow(fam, "p500 in_port=host dst=svcCIDR ct nat(src=hostMasq) table=2", fam),
                     DFlow(fam, "p500 in_port=patch src=svcCIDR dst=hostMasq ct nat table=3", fam),
                     DFlow(fam, "p105 in_port=patch dst=svcCIDR drop", fam) >>
      RECURSIVE all(_)
      all(i) == IF i > Len(cidrs) THEN <<>> ELSE one(cidrs[i]) \o all(i + 1)
  IN all(1)

\* flowsForDefaultBridge with the configuration and the bridge as arguments
flowsForDefaultBridgeOf(config, bridge, extraIPs) ==
  LET phys == bridge.ofPortPhys # ""
      p4 == MatchFirstIPNetFamily(FALSE, bridge.ips)
      p6 == MatchFirstIPNetFamily(TRUE, bridge.ips)
      table1(fam, host) ==
        << DFlow(fam, "p100 table=1 " \o fam \o " +trk+est ctMarkOVN output:patch", ""),
           DFlow(fam, "p100 table=1 " \o fam \o " +trk+rel ctMarkOVN output:patch", ""),
           DFlow(fam, "p100 table=1 " \o host \o " +trk+est ctMarkHost output:host", ""),
           DFlow(fam, "p100 table=1 " \o host \o " +trk+rel ctMarkHost output:host", "") >>
  IN IF config.IPv4Mode /\ ~p4.ok
       THEN [flows |-> <<>>, err |-> "unable to determine IPv4 physical IP of host"]
     ELSE IF config.IPv6Mode /\ ~p6.ok
       THEN [flows |-> <<>>, err |-> "unable to determine IPv6 physical IP of host"]
     ELSE
       [flows |->
          When(config.IPv4Mode,
               DefaultTable0("ip", "udp", bridge, p4.ip, V4HostMasqueradeIP, extraIPs))
          \o When(config.IPv6Mode,
                  DefaultTable0("ipv6", "udp6", bridge, p6.ip, V6HostMasqueradeIP, extraIPs))
          \o ServiceCIDRFlows(config.ServiceCIDRs)
          \o When(phys,
                  When(config.IPv4Mode, table1("ip", "ip"))
                  \o When(config.IPv6Mode, table1("ipv6", "ip6"))
                  \o << DFlow("", "p10 table=1 dl_dst=mac output:host", "") >>)
          \o << DFlow("", "table=2 mod_dl_dst=mac output:patch", ""),
                DFlow("", "table=3 move eth mod_dl_dst=mac output:host", "") >>
          \o When(config.IPv4Mode, << DFlow("ip", "table=4 ct nat(src=ovnMasq) table=3", "") >>)
          \o When(config.IPv6Mode, << DFlow("ipv6", "table=4 ct nat(src=ovnMasq) table=3", "") >>)
          \o When(config.IPv4Mode, << DFlow("ip", "table=5 ct nat table=2", "") >>)
          \o When(config.IPv6Mode, << DFlow("ipv6", "table=5 ct nat table=2", "") >>),
        err |-> ""]

\* the table 0 flows of one family in commonFlows
CommonTable0(fam, six, config, bridge, physicalIP) ==
  LET phys == bridge.ofPortPhys # ""
  IN When(phys,
          << DFlow(fam, "p105 in_port=patch pkt_mark ct nat(src=physicalIP) ctMarkOVN output:phys", physicalIP),
             DFlow(fam, "p100 in_port=patch ct ctMarkOVN output:phys", ""),
             DFlow(fam, "p100 in_port=host ct ctMarkHost output:phys", "") >>)
     \o When(config.Mode = "local",
             << LocalFlow(fam, "p175 in_port=patch tcp" \o six \o " src=physicalIP ct table=4", physicalIP),
                LocalFlow(fam, "p175 in_port=patch udp" \o six \o " src=physicalIP ct table=4", physicalIP),
                LocalFlow(fam, "p175 in_port=patch sctp" \o six \o " src=physicalIP ct table=4", physicalIP) >>
             \o When(phys,
                     << LocalFlow(fam, "p650 in_port=patch udp" \o six \o " tp_dst=3784 output:phys", "") >>))
     \o When(phys, << DFlow(fam, "p50 in_port=phys ct nat table=1", "") >>)

\* table 1 flows that send the IPv4 BFD traffic to the host and to OVN only
\* when IPv6 is off
CommonTable1_ElseIf(config) ==
  IF config.IPv6Mode
    THEN << DFlow("ipv6", "p14 table=1 icmp6 route advertisement FLOOD", ""),
            DFlow("ipv6", "p14 table=1 icmp6 neighbor advertisement FLOOD", ""),
            DFlow("ipv6", "p13 table=1 in_port=phys udp6 tp_dst=3784 output:patch,host", "") >>
    ELSE When(config.IPv4Mode,
              << DFlow("ip", "p13 table=1 in_port=phys udp tp_dst=3784 output:patch,host", "") >>)

\* the per-family flows of table 1 in commonFlows (the bridge has an uplink):
\* the flooding of ICMPv6 advertisements and the BFD traffic of each family
CommonTable1(config) ==
  When(config.IPv6Mode,
       << DFlow("ipv6", "p14 table=1 icmp6 route advertisement FLOOD", ""),
          DFlow("ipv6", "p14 table=1 icmp6 neighbor advertisement FLOOD", ""),
          DFlow("ipv6", "p13 table=1 in_port=phys udp6 tp_dst=3784 output:patch,host", "") >>)
  \o When(config.IPv4Mode,
          << DFlow("ip", "p13 table=1 in_port=phys udp tp_dst=3784 output:patch,host", "") >>)

\* one flow per CIDR of the list
PerCIDR(cidrs, id) == [ i \in 1..Len(cidrs) |-> DFlow(cidrs[i], id, cidrs[i]) ]

\* commonFlows with the configuration as an argument
commonFlows(config, subnets, bridge) ==
  LET phys == bridge.ofPortPhys # ""
      p4 == MatchFirstIPNetFamily(FALSE, bridge.ips)
      p6 == MatchFirstIPNetFamily(TRUE, bridge.ips)
  IN IF config.IPv4Mode /\ ~p4.ok
       THEN [flows |-> <<>>, err |-> "unable to determine IPv4 physical IP of host"]
     ELSE IF config.IPv6Mode /\ ~p6.ok
       THEN [flows |-> <<>>, err |-> "unable to determine IPv6 physical IP of host"]
     ELSE
       [flows |->
          When(phys, << DFlow("", "p10 table=0 in_port=phys dl_dst=mac output:patch,host", "") >>)
          \o When(config.IPv4Mode, CommonTable0("ip", "", config, bridge, p4.ip))
          \o When(config.IPv6Mode, CommonTable0("ipv6", "6", config, bridge, p6.ip))
          \o When(config.EnableEgressIP,
                  PerCIDR(config.ClusterSubnets, "p104 in_port=patch src=clusterCIDR drop")
                  \o When(phys, PerCIDR(subnets, "p109 in_port=patch src=subnet ct ctMarkOVN output:phys")))
          \o When(phys,
                  When(config.DisableSNATMultipleGWs,
                       PerCIDR(config.ClusterSubnets, "p15 table=1 dst=clusterCIDR output:patch"))
                  \o << DFlow("", "p10 table=1 dl_dst=mac output:host", "") >>
                  \o CommonTable1(config)
                  \o << DFlow("", "p0 table=1 output:NORMAL", "") >>),
        err |-> ""]

\* the DEFAULT entry of updateBridgeFlowCache: the flows of
\* flowsForDefaultBridge followed by those of commonFlows, or the first error
DefaultEntry(config, subnets, bridge, extraIPs) ==
  LET d == flowsForDefaultBridgeOf(config, bridge, extraIPs)
      c == commonFlows(config, subnets, bridge)
  IN IF d.err # "" THEN d
     ELSE IF c.err # "" THEN c
     ELSE [flows |-> d.flows \o c.flows, err |-> ""]

\* the configurations the node may start with: the enabled families, the
\* gateway mode, the families of the service CIDRs, of the cluster subnets
\* and of the node's subnets, and two feature switches
FamilyLists == { <<"ip">>, <<"ipv6">>, <<"ip", "ipv6">> }
Configs ==
  [ IPv4Mode : BOOLEAN, IPv6Mode : BOOLEAN, Mode : {"shared", "local"},
    ServiceCIDRs : FamilyLists, ClusterSubnets : {<<"ip", "ipv6">>},
    EnableEgressIP : BOOLEAN, DisableSNATMultipleGWs : BOOLEAN ]

\* the gateway bridges: with and without an uplink port, and with the
\* addresses of one family, of both or of none
Bridges ==
  [ ofPortPhys : {"", "eth0"},
    ips : { <<>>, <<"192.168.1.1">>, <<"fd00::1">>, <<"192.168.1.1", "fd00::1">>,
            <<"fd00::1", "172.16.0.2", "192.168.1.1">> } ]

\* the lists of addresses the node owns
ExtraIPLists ==
  { <<>>, <<"172.16.0.2">>, <<"fd00::2", "172.16.0.2">>,
    <<"192.168.1.1", "169.254.169.2", "fd69::2", "fd00::1", "172.16.0.2", "fd00::2">> }

\* the node reads its configuration and finds its gateway bridge
ReadBridgeConfig ==
  \E config \in Configs, bridge \in Bridges, extraIPs \in ExtraIPLists :
    /\ gen.pos = "idle"
    /\ config.Mode = gwMode
    /\ gen' = [gen EXCEPT !.pos = "configured", !.config = config, !.bridge = bridge,
                          !.extraIPs = extraIPs]
    /\ SideStep("ReadBridgeConfig")
    /\ UNCHANGED <<egress, locks, gateway, cni>>

\* updateBridgeFlowCache generates the DEFAULT entry for the configuration read
GenerateBridgeFlows ==
  /\ gen.pos = "configured"
  /\ \E r \in {DefaultEntry(gen.config, gen.config.ClusterSubnets, gen.bridge, gen.extraIPs)} :
    /\ gen' = [gen EXCEPT !.pos = "generated", !.flows = r.flows, !.err = r.err]
    /\ SideStep("updateBridgeFlowCache")
    /\ UNCHANGED <<egress, locks, gateway, cni>>

InitIdle == Start /\ listerNF = FALSE /\ budget = 0 /\ failBudget = 0

NextGen == ReadBridgeConfig \/ GenerateBridgeFlows

SpecGen == InitIdle /\ [][NextGen]_allVars

\* ------------------------------------------------------------------
\* egress service controller: allEndpointsFor

\* c.nodesZoneState: node1 is in the local zone, node2 in a remote one; the
\* zone of node3 is not known
nodesZoneState == [n \in {"node1", "node2"} |-> n = "node1"]

\* the EndpointSlices the service may have: an endpoint is a node name ("" for
\* none) and its addresses
EgressSlices ==
  << [addressType |-> "IPv4",
      endpoints |-> << [nodeName |-> "node1", addresses |-> <<"010.0.0.5">>],
                       [nodeName |-> "node2", addresses |-> <<"10.0.1.9">>] >>],
     [addressType |-> "IPv4",
      endpoints |-> << [nodeName |-> "node1", addresses |-> <<"10.0.0.5">>],
                       [nodeName |-> "node3", addresses |-> <<"10.0.2.7">>] >>],
     [addressType |-> "IPv4",
      endpoints |-> << [nodeName |-> "", addresses |-> <<"10.0.3.3">>],
                       [nodeName |-> "node1", addresses |-> <<"192.168.1.1">>],
                       [nodeName |-> "node2", addresses |-> <<"192.168.1.2">>] >>],
     [addressType |-> "IPv6",
      endpoints |-> << [nodeName |-> "node1", addresses |-> <<"fd01::5">>],
                       [nodeName |-> "node2", addresses |-> <<"fd01::9">>],
                       [nodeName |-> "node1", addresses |-> <<"fd00::1">>] >>],
     [addressType |-> "FQDN",
      endpoints |-> << [nodeName |-> "node1", addresses |-> <<"db.example.com">>] >>] >>

\* services.IsHostEndpoint: the address lies outside the cluster subnets
IsHostEndpoint(ipStr) == ipStr \notin {"10.0.0.5", "10.0.1.9", "10.0.2.7", "10.0.3.3",
                                       "fd01::5", "fd01::9"}

\* a zone lookup that takes a node of unknown zone for a remote one
EndpointZone_UnknownIsRemote(interconnect, nodeName) ==
  [isEpLocal |-> ~interconnect \/ (nodeName \in DOMAIN nodesZoneState /\ nodesZoneState[nodeName]),
   zoneKnown |-> TRUE]

\* isEpLocal and zoneKnown of an endpoint with a node
EndpointZone(interconnect, nodeName) ==
  IF ~interconnect THEN [isEpLocal |-> TRUE, zoneKnown |-> TRUE]
  ELSE IF nodeName \in DOMAIN nodesZoneState
    THEN [isEpLocal |-> nodesZoneState[nodeName], zoneKnown |-> TRUE]
    ELSE [isEpLocal |-> FALSE, zoneKnown |-> FALSE]

\* the loop over the addresses of an endpoint
InsertAddresses(out, addressType, isEpLocal, addresses) ==
  LET field == (IF addressType = "IPv6" THEN "v6" ELSE "v4")
                 \o (IF isEpLocal THEN "LocalEndpoints" ELSE "RemoteEndpoints")
      ips == { ParseIPSloppyString(addresses[i]) : i \in 1..Len(addresses) }
  IN [out EXCEPT ![field] = @ \cup { ipStr \in ips : ~IsHostEndpoint(ipStr) }]

\* the loop over the endpoints of a slice
RECURSIVE EndpointLoop(_, _, _, _)
EndpointLoop(out, interconnect, eps, i) ==
  IF i > Len(eps.endpoints) THEN out
  ELSE LET ep == eps.endpoints[i]
           z == EndpointZone(interconnect, ep.nodeName)
       IN IF ep.nodeName = "" \/ ~z.zoneKnown
            THEN EndpointLoop(out, interconnect, eps, i + 1)
            ELSE EndpointLoop(InsertAddresses(out, eps.addressType, z.isEpLocal, ep.addresses),
                              interconnect, eps, i + 1)

\* the loop over the slices of the service
RECURSIVE SliceLoop(_, _, _, _)
SliceLoop(out, interconnect, endpointSlices, i) ==
  IF i > Len(endpointSlices) THEN out
  ELSE IF endpointSlices[i].addressType = "FQDN"
    THEN SliceLoop(out, interconnect, endpointSlices, i + 1)
    ELSE SliceLoop(EndpointLoop(out, interconnect, endpointSlices[i], 1),
                   interconnect, endpointSlices, i + 1)

\* allEndpointsFor: nil sets and the error when the lister fails
allEndpointsFor(interconnect, endpointSlices, listErr) ==
  IF listErr
    THEN [v4LocalEndpoints |-> {}, v6LocalEndpoints |-> {}, v4RemoteEndpoints |-> {},
          v6RemoteEndpoints |-> {}, err |-> TRUE]
    ELSE SliceLoop([v4LocalEndpoints |-> {}, v6LocalEndpoints |-> {}, v4RemoteEndpoints |-> {},
                    v6RemoteEndpoints |-> {}, err |-> FALSE],
                   interconnect, endpointSlices, 1)

\* the slices of the set of indexes, as the lister returns them
Listed(idx) == SelectSeq([i \in 1..Len(EgressSlices) |-> i], LAMBDA i : i \in idx)

\* the EndpointSlice lister of the controller holds some of the slices
ListEndpointSlices ==
  \E idx \in SUBSET (1..Len(EgressSlices)), ic \in BOOLEAN, le \in BOOLEAN :
    /\ egress.pos = "idle"
    /\ egress' = [egress EXCEPT !.pos = "listed", !.interconnect = ic, !.listed = idx,
                                !.listErr = le]
    /\ SideStep("ListEndpointSlices")
    /\ UNCHANGED <<gen, locks, gateway, cni>>

\* allEndpointsFor runs for the service
DoAllEndpointsFor ==
  /\ egress.pos = "listed"
  /\ egress' = [egress EXCEPT
                  !.pos = "returned",
                  !.out = allEndpointsFor(egress.interconnect,
                                          [i \in 1..Len(Listed(egress.listed)) |->
                                             EgressSlices[Listed(egress.listed)[i]]],
                                          egress.listErr)]
  /\ SideStep("allEndpointsFor")
  /\ UNCHANGED <<gen, locks, gateway, cni>>

NextEgress == ListEndpointSlices \/ DoAllEndpointsFor

SpecEgress == InitIdle /\ [][NextEgress]_allVars

\* ------------------------------------------------------------------
\* the lock operations of the handlers, in program order

Lock(m) == <<"Lock", m>>
Unlock(m) == <<"Unlock", m>>

\* an accessor of the record map: Lock and deferred Unlock inside the call
Accessor == << Lock("serviceInfoLock"), Unlock("serviceInfoLock") >>

\* ofm.updateFlowCacheEntry / ofm.deleteFlowsByKey: the flow cache is written
\* under the flow mutex of the openflowManager
FlowCacheWrite == << Lock("flowMutex"), Unlock("flowMutex") >>

\* an updateServiceFlowCache that looks the record up while it holds the
\* gateway-IP lock
updateServiceFlowCacheLocks_ReadsRecord ==
  << Lock("gatewayIPLock") >> \o Accessor \o FlowCacheWrite \o << Unlock("gatewayIPLock") >>

\* updateServiceFlowCache: gatewayIPLock from the start to the return, the
\* writes of the flow cache inside
updateServiceFlowCacheLocks ==
  << Lock("gatewayIPLock") >> \o FlowCacheWrite \o << Unlock("gatewayIPLock") >>

\* updateBridgeFlowCache: the bridge configuration is locked from the start to
\* the return, the NORMAL and the DEFAULT entry are written inside
updateBridgeFlowCacheLocks ==
  << Lock("gatewayBridge") >> \o FlowCacheWrite \o FlowCacheWrite \o << Unlock("gatewayBridge") >>

\* updateGatewayIPs: the bridge configuration is read under its lock, which is
\* released before gatewayIPLock is taken
updateGatewayIPsLocks ==
  << Lock("gatewayBridge"), Unlock("gatewayBridge"),
     Lock("gatewayIPLock"), Unlock("gatewayIPLock") >>

AddEndpointSliceLocks == Accessor \o updateServiceFlowCacheLocks \o updateServiceFlowCacheLocks

\* DeleteEndpointSlice: updateServiceInfo, then serviceInfoLock is taken again
\* and held over delServiceRules and addServiceRules
DeleteEndpointSliceLocks ==
  Accessor \o << Lock("serviceInfoLock") >>
    \o updateServiceFlowCacheLocks \o updateServiceFlowCacheLocks
    \o << Unlock("serviceInfoLock") >>

\* the lock operations of a handler call that takes its longest path
LockProgram(handler) ==
  CASE handler = "AddService" -> Accessor \o updateServiceFlowCacheLocks
    [] handler = "UpdateService" ->
         Accessor \o updateServiceFlowCacheLocks \o updateServiceFlowCacheLocks
    [] handler = "DeleteService" -> Accessor \o updateServiceFlowCacheLocks
    [] handler = "AddEndpointSlice" -> AddEndpointSliceLocks
    [] handler = "DeleteEndpointSlice" -> DeleteEndpointSliceLocks
    [] handler = "UpdateEndpointSlice" ->
         Accessor \o DeleteEndpointSliceLocks \o AddEndpointSliceLocks
    [] handler = "SyncServices" -> Accessor \o updateServiceFlowCacheLocks
    [] handler = "OnChanged" -> updateBridgeFlowCacheLocks \o updateGatewayIPsLocks
    [] OTHER -> <<>>

\* the handlers each goroutine runs
HandlersOf(g) ==
  CASE g = "service" -> {"AddService", "UpdateService", "DeleteService"}
    [] g = "endpointslice" -> {"AddEndpointSlice", "DeleteEndpointSlice", "UpdateEndpointSlice"}
    [] g = "sync" -> {"SyncServices"}
    [] OTHER -> {"OnChanged"}

\* the lock operation the goroutine is at
NextLockOp(g) == LockProgram(locks.handler[g])[locks.pc[g]]

\* an event is handed to the handler of a goroutine that is idle
HandlerStart ==
  \E g \in Goroutines : \E h \in HandlersOf(g) :
    /\ locks.handler[g] = ""
    /\ locks' = [locks EXCEPT !.handler[g] = h, !.pc[g] = 1]
    /\ SideStep(h)
    /\ UNCHANGED <<gen, egress, gateway, cni>>

\* sync.Mutex.Lock returns when the mutex is free, whoever asks for it
MutexLock ==
  \E g \in Goroutines :
    /\ locks.handler[g] # ""
    /\ locks.pc[g] <= Len(LockProgram(locks.handler[g]))
    /\ NextLockOp(g)[1] = "Lock"
    /\ locks.holder[NextLockOp(g)[2]] = ""
    /\ locks' = [locks EXCEPT !.holder[NextLockOp(g)[2]] = g, !.pc[g] = @ + 1]
    /\ SideStep("Lock")
    /\ UNCHANGED <<gen, egress, gateway, cni>>

MutexUnlock ==
  \E g \in Goroutines :
    /\ locks.handler[g] # ""
    /\ locks.pc[g] <= Len(LockProgram(locks.handler[g]))
    /\ NextLockOp(g)[1] = "Unlock"
    /\ locks' = [locks EXCEPT !.holder[NextLockOp(g)[2]] = "", !.pc[g] = @ + 1]
    /\ SideStep("Unlock")
    /\ UNCHANGED <<gen, egress, gateway, cni>>

\* the handler returns
HandlerReturn ==
  \E g \in Goroutines :
    /\ locks.handler[g] # ""
    /\ locks.pc[g] > Len(LockProgram(locks.handler[g]))
    /\ locks' = [locks EXCEPT !.handler[g] = "", !.pc[g] = 1]
    /\ SideStep("return")
    /\ UNCHANGED <<gen, egress, gateway, cni>>

NextLocks == HandlerStart \/ MutexLock \/ MutexUnlock \/ HandlerReturn

SpecLocks == InitIdle /\ [][NextLocks]_allVars

\* ------------------------------------------------------------------
\* A repeated AddService: the Service handler runs again for a service whose
\* add event was delivered before (the retry of an add that returned an error)

\* runs with repeated adds in which the backend fails while AddService
\* installs the rules, in shared gateway mode (the packet-filter rules do not
\* depend on the mode)
InitRetry ==
  Start /\ gwMode = "shared" /\ listerNF = FALSE /\ budget = MaxEvents
        /\ failBudget = MaxFailures

DoRetryAddService ==
  \E iptOK \in Backend :
    /\ SvcName \in DOMAIN apiSvc
    /\ ~addPending
    /\ Commit(AddService(Cur, apiSvc[SvcName], Lister(apiSvc, apiSlices, listerNF, iptOK)),
              "AddService (retry)", iptOK)
    /\ UNCHANGED <<gwMode, apiSvc, apiSlices, addPending>>

\* the backend fails during AddService, as long as it may fail, and during no
\* other call
AddServiceFails == failBudget > 0 => failBudget' < failBudget
OnlyAddServiceFails == failBudget' = failBudget

NextRetry ==
  \/ ApiCreateService
  \/ DoAddService /\ AddServiceFails
  \/ DoRetryAddService /\ OnlyAddServiceFails
  \/ DoUpdateService /\ OnlyAddServiceFails
  \/ DoDeleteService /\ OnlyAddServiceFails
  \/ DoSyncServices /\ OnlyAddServiceFails
  \/ DoAddEndpointSlice /\ OnlyAddServiceFails
  \/ DoUpdateEndpointSlice /\ OnlyAddServiceFails
  \/ DoDeleteEndpointSlice /\ OnlyAddServiceFails

SpecRetry == InitRetry /\ [][NextRetry]_allVars

\* ------------------------------------------------------------------
\* SyncServices with a list that leaves out a service the watcher has a
\* record of (the list is a snapshot the caller took), and SyncServices after
\* the addresses of the node have changed

\* runs with such calls, on a lister that answers not-found for a service
\* without slices
InitSyncList ==
  Start /\ listerNF = TRUE /\ budget = MaxSyncEvents + MaxAddrEvents /\ failBudget = 0

\* a host-networked pod of this node on an address the node owns besides
\* those of the gateway bridge
EpHostExtra == [addr |-> "172.16.0.2", node |-> "node1"]

\* the EndpointSlice of that pod is created
DoAddHostExtraSlice ==
  \E i \in SliceIds, iptOK \in Backend :
    /\ apiSlices = EmptyMap
    /\ apiSlices' = [j \in {i} |-> [label |-> SvcName, eps |-> {EpHostExtra}]]
    /\ Commit(AddEndpointSlice(Cur, apiSlices'[i], Lister(apiSvc, apiSlices', listerNF, iptOK)),
              "AddEndpointSlice", iptOK)
    /\ UNCHANGED <<gwMode, apiSvc, addPending>>

DoSyncServicesWithout ==
  \E iptOK \in Backend :
    /\ SvcName \in DOMAIN serviceInfo
    /\ Commit(SyncServices(Cur, <<>>, Lister(apiSvc, apiSlices, listerNF, iptOK)),
              "SyncServices (service not listed)", iptOK)
    /\ UNCHANGED <<gwMode, apiSvc, apiSlices, addPending>>

NextSyncList ==
  \/ ApiCreateService
  \/ DoAddService
  \/ DoAddHostExtraSlice
  \/ DoDeleteEndpointSlice
  \/ OnChanged
  \/ DoSyncServices
  \/ DoSyncServicesWithout

SpecSyncList == InitSyncList /\ [][NextSyncList]_allVars

\* ------------------------------------------------------------------
\* newSharedGateway and the address-change callback it registers
\* (gw.nodeIPManager.OnChanged), step by step, with the gateway IPs of the
\* watcher as state

\* getGatewayFamilyAddrs: the first IPv4 and the first IPv6 address of the bridge
getGatewayFamilyAddrs(ips) ==
  [v4 |-> MatchFirstIPNetFamily(FALSE, ips).ip, v6 |-> MatchFirstIPNetFamily(TRUE, ips).ip]

\* the DNAT destination of the case1 flow of a flow protocol, as
\* updateServiceFlowCache writes it from the fields of the watcher
Case1Destination(flowProtocol) ==
  IF Contains6(flowProtocol) THEN gateway.gatewayIPv6 ELSE gateway.gatewayIPv4

\* the init function of newSharedGateway: the callback is registered; the
\* watcher is created only with config.Gateway.NodeportEnable, otherwise a
\* flow sync is requested at once
GatewayInit ==
  \E NodeportEnable \in BOOLEAN :
    /\ gateway.pos = "new"
    /\ gateway' = [gateway EXCEPT
         !.pos = "idle",
         !.defaultFor = gateway.ips,
         !.nodePortWatcher = NodeportEnable,
         !.gatewayIPv4 = IF NodeportEnable THEN getGatewayFamilyAddrs(gateway.ips).v4 ELSE "",
         !.gatewayIPv6 = IF NodeportEnable THEN getGatewayFamilyAddrs(gateway.ips).v6 ELSE "",
         !.flowChan = IF NodeportEnable THEN gateway.flowChan
                      ELSE requestFlowSync(gateway.flowChan)]
    /\ SideStep("newSharedGateway")
    /\ UNCHANGED <<gen, egress, locks, cni>>

\* the watcher installs the flows of a NodePort service with ETP=Local and a
\* local host-networked endpoint: one case1 flow group per flow protocol
GatewayAddService ==
  /\ gateway.pos \notin {"new", "panic"}
  /\ gateway.nodePortWatcher
  /\ gateway.cache = <<>>
  /\ gateway' = [gateway EXCEPT
       !.cache = [fp \in FlowProtocols("tcp") |-> Case1Destination(fp)],
       !.flowChan = requestFlowSync(gateway.flowChan)]
  /\ SideStep("addServiceRules")
  /\ UNCHANGED <<gen, egress, locks, cni>>

\* the watcher deletes the flows of the service
GatewayDeleteService ==
  /\ gateway.pos \notin {"new", "panic"}
  /\ gateway.nodePortWatcher
  /\ gateway.cache # <<>>
  /\ gateway' = [gateway EXCEPT !.cache = <<>>,
                                !.flowChan = requestFlowSync(gateway.flowChan)]
  /\ SideStep("delServiceRules")
  /\ UNCHANGED <<gen, egress, locks, cni>>

\* the addresses of the bridge change and the address manager calls OnChanged
BridgeAddressChange ==
  \E ips \in BridgeIPLists :
    /\ gateway.pos = "idle"
    /\ ips # gateway.ips
    /\ gateway' = [gateway EXCEPT !.ips = ips, !.pos = "called"]
    /\ SideStep("address change")
    /\ UNCHANGED <<gen, egress, locks, cni>>

\* OnChanged: updateBridgeFlowCache regenerates the flows of the bridge
OnChanged_updateBridgeFlowCache ==
  /\ gateway.pos = "called"
  /\ gateway' = [gateway EXCEPT !.pos = "bridge flows updated", !.defaultFor = gateway.ips]
  /\ SideStep("OnChanged: updateBridgeFlowCache")
  /\ UNCHANGED <<gen, egress, locks, cni>>

\* OnChanged: npw.updateGatewayIPs stores the gateway IPs of the bridge in the
\* watcher; npw is nil when no watcher was created, and the lock of a nil
\* watcher cannot be taken
OnChanged_updateGatewayIPs ==
  /\ gateway.pos = "bridge flows updated"
  /\ gateway' = IF gateway.nodePortWatcher
                THEN [gateway EXCEPT !.pos = "gateway IPs updated",
                                     !.gatewayIPv4 = getGatewayFamilyAddrs(gateway.ips).v4,
                                     !.gatewayIPv6 = getGatewayFamilyAddrs(gateway.ips).v6]
                ELSE [gateway EXCEPT !.pos = "panic"]
  /\ SideStep("OnChanged: updateGatewayIPs")
  /\ UNCHANGED <<gen, egress, locks, cni>>

\* OnChanged: requestFlowSync, and the callback returns
OnChanged_requestFlowSync ==
  /\ gateway.pos = "gateway IPs updated"
  /\ gateway' = [gateway EXCEPT !.pos = "idle",
                                !.flowChan = requestFlowSync(gateway.flowChan)]
  /\ SideStep("OnChanged: requestFlowSync")
  /\ UNCHANGED <<gen, egress, locks, cni>>

NextGateway ==
  \/ GatewayInit
  \/ GatewayAddService
  \/ GatewayDeleteService
  \/ BridgeAddressChange
  \/ OnChanged_updateBridgeFlowCache
  \/ OnChanged_updateGatewayIPs
  \/ OnChanged_requestFlowSync

SpecGateway == InitIdle /\ [][NextGateway]_allVars

\* ------------------------------------------------------------------
\* DeleteService with a conntrack backend that fails:
\* util.DeleteConntrackServicePort returns an error for the pairs of ctFail,
\* and the failed attempt is recorded as a "conntrack failed" operation

ConntrackFailed(purge) == [purge EXCEPT !.op = "conntrack failed"]

\* a loop over the pairs that goes on after a failed deletion
RECURSIVE PurgeLoop_ContinuesAfterFailure(_, _, _)
PurgeLoop_ContinuesAfterFailure(purges, i, ctFail) ==
  IF i > Len(purges) THEN [ops |-> <<>>, err |-> FALSE]
  ELSE LET r == PurgeLoop_ContinuesAfterFailure(purges, i + 1, ctFail)
       IN IF purges[i] \in ctFail
          THEN [ops |-> <<ConntrackFailed(purges[i])>> \o r.ops, err |-> TRUE]
          ELSE [ops |-> <<purges[i]>> \o r.ops, err |-> r.err]

\* the loops of deleteConntrackForServiceVIP and of the node-port purge: the
\* pairs are deleted in order and the first failure returns
RECURSIVE PurgeLoop(_, _, _)
PurgeLoop(purges, i, ctFail) ==
  IF i > Len(purges) THEN [ops |-> <<>>, err |-> FALSE]
  ELSE IF purges[i] \in ctFail
  THEN [ops |-> <<ConntrackFailed(purges[i])>>, err |-> TRUE]
  ELSE LET r == PurgeLoop(purges, i + 1, ctFail)
       IN [ops |-> <<purges[i]>> \o r.ops, err |-> r.err]

deleteConntrackForServiceVIP(svcVIPs, svcPorts, ctFail) ==
  PurgeLoop(VIPPurges(svcVIPs, svcPorts, 1), 1, ctFail)

\* deleteConntrackForService: external and load-balancer IPs, node ports,
\* cluster IPs; each part returns the error of the part before it
deleteConntrackForServiceOn(service, ctFail) ==
  LET r1 == deleteConntrackForServiceVIP(service.externalIPs \o service.ingress,
                                         service.ports, ctFail)
      r2 == IF ServiceTypeHasNodePort(service)
            THEN PurgeLoop(NodePortPurges(NodeIPList, service.ports, 1), 1, ctFail)
            ELSE [ops |-> <<>>, err |-> FALSE]
      r3 == deleteConntrackForServiceVIP(<<service.clusterIP>>, service.ports, ctFail)
  IN IF r1.err THEN r1
     ELSE IF r2.err THEN [ops |-> r1.ops \o r2.ops, err |-> TRUE]
     ELSE [ops |-> r1.ops \o r2.ops \o r3.ops, err |-> r3.err]

\* DeleteService on that backend
DeleteServiceOn(st, service, L, ctFail) ==
  IF ~ServiceTypeHasClusterIP(service) \/ ~IsClusterIPSet(service) THEN NoErr(st)
  ELSE
    LET r == getAndDeleteServiceInfo(st.si, service.name)
        svcConfig == r.old
        st1 == [st EXCEPT !.si = r.si]
        st2 == IF r.exists
               THEN delServiceRules(NoErr(st1), svcConfig.service,
                                    List(svcConfig.localEndpoints), L.iptOK)
               ELSE NoErr(st1)
        ct == deleteConntrackForServiceOn(service, ctFail)
    IN [st2 EXCEPT !.ops = st2.ops \o ct.ops, !.err = st2.err \/ ct.err]

\* runs in which the conntrack backend may fail during DeleteService
InitPurge == Start /\ listerNF = FALSE /\ budget = MaxFailEvents /\ failBudget = 0

\* a LoadBalancer service with two ports, an external IP and an ingress IP:
\* every part of its purge has more than one pair
Port443NP == [port |-> 443, nodePort |-> 30443, targetPort |-> "8443", protocol |-> "tcp"]
SvcTwoPorts == [SvcLB EXCEPT !.ports = <<Port80NP, Port443NP>>,
                             !.externalIPs = <<"5.6.7.8">>]

\* the API server creates that service
ApiCreateServiceTwoPorts ==
  /\ SvcName \notin DOMAIN apiSvc
  /\ ~addPending
  /\ apiSvc' = [k \in {SvcName} |-> SvcTwoPorts]
  /\ addPending' = TRUE
  /\ budget > 0
  /\ race = RaceIdle
  /\ lastCall' = "ApiCreateService"
  /\ UNCHANGED <<gwMode, apiSlices, serviceInfo, flowCache, flowChan, ipt,
                 lastOps, lastErr, failed, failBudget, budget, listerNF, race,
                 bridgeFlows, nodeAddrs, ovs, sideVars>>

\* the sets of failing pairs: one pair of the service, or all of them
FailingPairs(service) ==
  LET all == RangeOf(deleteConntrackForService(service))
  IN { {p} : p \in all } \cup {all}

DoDeleteServiceConntrackFails ==
  \E iptOK \in Backend :
    /\ SvcName \in DOMAIN apiSvc
    /\ ~addPending
    /\ \E ctFail \in FailingPairs(apiSvc[SvcName]) :
         /\ ctFail # {}
         /\ apiSvc' = EmptyMap
         /\ Commit(DeleteServiceOn(Cur, apiSvc[SvcName],
                                   Lister(apiSvc', apiSlices, listerNF, iptOK), ctFail),
                   "DeleteService (conntrack fails)", iptOK)
    /\ UNCHANGED <<gwMode, apiSlices, addPending>>

NextPurge ==
  \/ Next
  \/ ApiCreateServiceTwoPorts
  \/ DoDeleteServiceConntrackFails

SpecPurge == InitPurge /\ [][NextPurge]_allVars

\* ------------------------------------------------------------------
\* the CNI shim: Plugin.CmdAdd and Plugin.CmdDel, statement by statement

\* what a command meets: the stdin configuration parses or not; the request
\* to the CNI server succeeds, fails in transport, is answered with another
\* status than 200, or is answered with a body that does not parse; the
\* response carries a result (the server configured the interface) or not;
\* the later steps succeed or fail
CNIEnvs ==
  [ stdin : {"valid", "invalid"},
    request : {"ok", "transport error", "status 500", "unparsable body"},
    result : BOOLEAN,
    clientset : {"ok", "error"},
    plug : {"ok", "error"} ]

\* doCNI: the body of the response, or the error of the request
doCNI(env) ==
  CASE env.request = "transport error" -> [body |-> "nil", err |-> "failed to send CNI request"]
    [] env.request = "status 500" -> [body |-> "nil", err |-> "CNI request failed with status"]
    [] OTHER -> [body |-> IF env.request = "ok" THEN "json" ELSE "garbage", err |-> "nil"]

\* cmdCommon: the response and the error it returns
cmdCommon(env) ==
  IF env.stdin = "invalid" THEN [response |-> NilResponse, err |-> "invalid stdin args"]
  ELSE LET r == doCNI(env)
       IN IF r.err # "nil" THEN [response |-> NilResponse, err |-> r.err]
          ELSE IF r.body # "json"
          THEN [response |-> NilResponse, err |-> "failed to unmarshal response"]
          ELSE [response |-> [nil |-> FALSE, Result |-> env.result], err |-> "nil"]

\* the test after the call of cmdCommon, 'if err != nil': it reads err, the
\* error variable of the command, which nothing has assigned yet; the error
\* cmdCommon returned is in errC
RequestFailed(err, errC) == err # "nil"

\* the skel calls CmdAdd or CmdDel
CmdCall ==
  \E cmd \in {"ADD", "DEL"}, env \in CNIEnvs :
    /\ cni.pos = "idle"
    /\ cni' = [cni EXCEPT !.pos = "called", !.cmd = cmd, !.env = env]
    /\ SideStep("Cmd" \o cmd)
    /\ UNCHANGED <<gen, egress, locks, gateway>>

\* response, req, cniVersion, errC := p.cmdCommon(args, ...)
Cmd_cmdCommon ==
  /\ cni.pos = "called"
  /\ cni' = [cni EXCEPT !.pos = "cmdCommon returned",
                        !.response = cmdCommon(cni.env).response,
                        !.errC = cmdCommon(cni.env).err]
  /\ SideStep("cmdCommon")
  /\ UNCHANGED <<gen, egress, locks, gateway>>

\* if err != nil { err = errC; return err }
Cmd_CheckError ==
  /\ cni.pos = "cmdCommon returned"
  /\ cni' = IF RequestFailed(cni.err, cni.errC)
            THEN [cni EXCEPT !.pos = "returned", !.err = cni.errC, !.returned = cni.errC]
            ELSE [cni EXCEPT !.pos = "request checked"]
  /\ SideStep("if err != nil")
  /\ UNCHANGED <<gen, egress, locks, gateway>>

\* the first use of the response: CmdAdd reads response.KubeAuth for
\* shimClientsetFromConfig, CmdDel reads response.Result; reading a field of
\* a nil response is a nil pointer dereference
Cmd_ReadResponse ==
  /\ cni.pos = "request checked"
  /\ cni' =
       IF cni.response.nil THEN [cni EXCEPT !.pos = "panic"]
       ELSE IF cni.cmd = "ADD" /\ cni.env.clientset = "error"
       THEN [cni EXCEPT !.pos = "returned", !.done = cni.done \cup {"read response"},
                        !.err = "clientset error", !.returned = "clientset error"]
       ELSE IF cni.response.Result
       THEN [cni EXCEPT !.done = cni.done \cup {"read response"},
                        !.pos = IF cni.cmd = "ADD" THEN "result ready" ELSE "returned",
                        !.returned = IF cni.cmd = "ADD" THEN "" ELSE "nil"]
       ELSE [cni EXCEPT !.pos = "unprivileged", !.done = cni.done \cup {"read response"}]
  /\ SideStep("read response")
  /\ UNCHANGED <<gen, egress, locks, gateway>>

\* unprivileged mode: initPodRequestUnprivilegedMode, then CmdAdd configures
\* the interface (pr.getCNIResult) and CmdDel unconfigures it
\* (pr.UnconfigureInterface)
Cmd_Interface ==
  /\ cni.pos = "unprivileged"
  /\ cni' =
       IF cni.env.plug = "error"
       THEN [cni EXCEPT !.pos = "returned", !.err = "interface error",
                        !.returned = "interface error"]
       ELSE [cni EXCEPT !.done = cni.done \cup {"interface"},
                        !.pos = IF cni.cmd = "ADD" THEN "result ready" ELSE "returned",
                        !.returned = IF cni.cmd = "ADD" THEN "" ELSE "nil"]
  /\ SideStep("interface")
  /\ UNCHANGED <<gen, egress, locks, gateway>>

\* CmdAdd: return types.PrintResult(result, cniVersion)
CmdAdd_PrintResult ==
  /\ cni.pos = "result ready"
  /\ cni' = [cni EXCEPT !.pos = "returned", !.done = cni.done \cup {"print result"},
                        !.returned = "nil"]
  /\ SideStep("PrintResult")
  /\ UNCHANGED <<gen, egress, locks, gateway>>

NextCNI ==
  \/ CmdCall
  \/ Cmd_cmdCommon
  \/ Cmd_CheckError
  \/ Cmd_ReadResponse
  \/ Cmd_Interface
  \/ CmdAdd_PrintResult

SpecCNI == InitIdle /\ [][NextCNI]_allVars

\* ============================================================ properties
\* what is installed for the service key in the two backends
SvcFlowKeys == { k \in DOMAIN flowCache : k.name = SvcName }
SvcIptRules == { r \in ipt : r.name = SvcName }
HasRecord == SvcName \in DOMAIN serviceInfo
Live == SvcName \in DOMAIN apiSvc

\* the EndpointSlices the lister holds for the service
LiveSlices == { apiSlices[i] : i \in DOMAIN apiSlices }
\* some endpoint of the live slices runs on this node with a node address
LiveLocalHostNetworkEp ==
  \E sl \in LiveSlices : \E e \in sl.eps : e.node = thisNode /\ e.addr \in NodeIPs

\* ---- C1
\* C1 (as stated): at every point between handler calls of a run without
\* backend failures, a record exists for the service key if and only if its
\* rules are installed in the flow cache and in the packet filter.
C1_RecordIffRulesInstalled ==
  HasRecord <=> (SvcFlowKeys # {} /\ SvcIptRules # {})

\* the flow-cache keys a service with the given host-network-endpoint flag
\* needs: per node port and IP family a NodePort key (in local gateway mode
\* only for ETP=local with a host-networked endpoint), per port and ingress
\* or external IP an Ingress or External key
NeededFlowKeys(svc, hn) ==
  (IF gwMode = "shared" \/ (svc.etp = "Local" /\ hn)
   THEN { [t |-> "NodePort", name |-> svc.name, id |-> fp, port |-> p.nodePort] :
            p \in { q \in RangeOf(svc.ports) : q.nodePort > 0 },
            fp \in {"tcp", "tcp6"} }
   ELSE {})
  \cup { [t |-> "Ingress", name |-> svc.name, id |-> ip, port |-> p.port] :
           ip \in RangeOf(svc.ingress), p \in RangeOf(svc.ports) }
  \cup { [t |-> "External", name |-> svc.name, id |-> ip, port |-> p.port] :
           ip \in RangeOf(svc.externalIPs), p \in RangeOf(svc.ports) }

\* the packet-filter rules of a record
RecordRules(cfg) ==
  getGatewayIPTRules(cfg.service, List(cfg.localEndpoints), cfg.hasLocalHostNetworkEp)

\* C1 (amended): record and rules go together at the two ends of a service's
\* life: AddService on an eligible service without a record leaves a record
\* whose flow keys and packet-filter rules (possibly none, as for a plain
\* ClusterIP service) are all installed, and DeleteService on an eligible
\* service with a record leaves no record, no flow key and no packet-filter
\* rule of the recorded service.
C1_AddAndDeletePairRecordWithRules ==
  [][ /\ (lastCall' = "AddService" /\ Eligible(apiSvc[SvcName]) /\ ~HasRecord) =>
           /\ SvcName \in DOMAIN serviceInfo'
           /\ serviceInfo'[SvcName].service = apiSvc[SvcName]
           /\ NeededFlowKeys(apiSvc[SvcName], serviceInfo'[SvcName].hasLocalHostNetworkEp)
                \subseteq DOMAIN flowCache'
           /\ RecordRules(serviceInfo'[SvcName]) \subseteq ipt'
      /\ (lastCall' = "DeleteService" /\ Eligible(apiSvc[SvcName]) /\ HasRecord) =>
           /\ SvcName \notin DOMAIN serviceInfo'
           /\ \A hn \in BOOLEAN :
                /\ NeededFlowKeys(serviceInfo[SvcName].service, hn) \cap DOMAIN flowCache' = {}
                /\ RecordRules([serviceInfo[SvcName] EXCEPT !.hasLocalHostNetworkEp = hn])
                     \cap ipt' = {}
    ]_allVars

\* a DeleteService that removed the record and the rules of a service that
\* had some
C1_Witness ==
  /\ lastCall = "DeleteService"
  /\ Len(lastOps) > 0 /\ lastOps[1].op = "delServiceRules"
  /\ ~HasRecord /\ SvcFlowKeys = {} /\ SvcIptRules = {}
  /\ \E i \in 1..Len(lastOps) : lastOps[i].op = "conntrack" /\ lastOps[i].n = 30080

\* ---- C2
\* C2: once every event has been handled, the per-service keys of the flow
\* cache are exactly the keys the live Service and EndpointSlice state
\* implies: the needed keys of an eligible live service, none otherwise.
C2_FlowKeysMatchLiveState ==
  (~addPending /\ lastCall # "init") =>
     SvcFlowKeys = IF Live /\ Eligible(apiSvc[SvcName])
                   THEN NeededFlowKeys(apiSvc[SvcName], LiveLocalHostNetworkEp)
                   ELSE {}

\* ---- C3
\* C3: after every completed EndpointSlice or Service handler call, the
\* record's hasLocalHostNetworkEndpoint flag is true exactly when some
\* endpoint of the service's current slices is local and host-networked; in
\* particular after a DeleteEndpointSlice that leaves other slices carrying
\* such an endpoint.
HandlerCalls == {"AddService", "UpdateService", "DeleteService",
                 "AddEndpointSlice", "UpdateEndpointSlice", "DeleteEndpointSlice"}

C3_FlagMatchesCurrentSlices ==
  (lastCall \in HandlerCalls /\ HasRecord /\ Live /\ Eligible(apiSvc[SvcName])) =>
     (serviceInfo[SvcName].hasLocalHostNetworkEp <=> LiveLocalHostNetworkEp)

\* ---- C4
\* C4: SyncServices run a second time on the same service snapshot, with
\* nothing happening in between, leaves the flow cache and the packet-filter
\* chains exactly as the first run left them, whatever the state the first
\* run started from.
C4_SyncServicesIdempotent ==
  [][ lastCall' = "SyncServices again" => (flowCache' = flowCache /\ ipt' = ipt) ]_allVars

\* a second run over a service that has flows and packet-filter rules
C4_Witness ==
  /\ lastCall = "SyncServices again"
  /\ SvcFlowKeys # {} /\ SvcIptRules # {}
  /\ HasRecord /\ serviceInfo[SvcName].hasLocalHostNetworkEp

\* ---- C5
\* the inputs of addServiceRules and delServiceRules
LocalEndpointLists == SUBSET {"10.0.0.5", "192.168.1.1"}
RuleUniverse ==
  UNION { getGatewayIPTRules(svc, le, hn) :
            svc \in Services, le \in LocalEndpointLists, hn \in BOOLEAN }
\* the rules addServiceRules installs into an empty packet filter, and the
\* rules delServiceRules removes from a packet filter that holds every rule
InstalledBy(svc, le, hn) ==
  addServiceRules([Cur EXCEPT !.ipt = {}], svc, le, hn, TRUE).ipt
RemovedBy(svc, le) ==
  RuleUniverse \ delServiceRules([Cur EXCEPT !.ipt = RuleUniverse], svc, le, TRUE).ipt

\* the services of the current state: the live one and the recorded one
ServicesInState ==
  { apiSvc[n] : n \in DOMAIN apiSvc } \cup { serviceInfo[n].service : n \in DOMAIN serviceInfo }

\* C5 (as stated): for every service, local-endpoint list and flag, the
\* packet-filter rules addServiceRules installs are exactly the rules
\* delServiceRules removes for the same service and list.
C5_AddSetEqualsDelSet ==
  \A svc \in ServicesInState, le \in LocalEndpointLists, hn \in BOOLEAN :
    InstalledBy(svc, le, hn) = RemovedBy(svc, le)

\* C5 (amended): delServiceRules takes no flag; it removes the rules of both
\* values of the flag, so every rule addServiceRules installs for a service,
\* list and flag is removed by delServiceRules for the same service and list,
\* together with the rules of the other flag value and nothing else.
C5_DelRemovesBothFlagVariants ==
  \A svc \in ServicesInState, le \in LocalEndpointLists :
    /\ \A hn \in BOOLEAN : InstalledBy(svc, le, hn) \subseteq RemovedBy(svc, le)
    /\ RemovedBy(svc, le) = InstalledBy(svc, le, TRUE) \cup InstalledBy(svc, le, FALSE)

\* a handler deleted the rules of a record whose flag was false (the MARK
\* rule of ITP=local) and installed those of the flag true (REDIRECT)
C5_Witness ==
  /\ Len(lastOps) = 2
  /\ lastOps[1].op = "delServiceRules" /\ lastOps[2].op = "addServiceRules"
  /\ \E r \in ipt : r.target = "REDIRECT"
  /\ ~ \E r \in ipt : r.target = "MARK"
  /\ HasRecord /\ serviceInfo[SvcName].hasLocalHostNetworkEp

\* ---- C6
\* equality of the fields UpdateService tracks; an unset field equals an
\* unset field
TrackedEqual(a, b) ==
  /\ a.ports = b.ports /\ a.externalIPs = b.externalIPs /\ a.clusterIP = b.clusterIP
  /\ a.type = b.type /\ a.ingress = b.ingress /\ a.etp = b.etp /\ a.itp = b.itp
  /\ a.alloc = b.alloc

\* C6: UpdateService(old, new) with old and new equal in every tracked field
\* and different only elsewhere (a label) installs and deletes no rule and
\* leaves the record unchanged, also for services whose internal traffic
\* policy or node-port allocation field is unset.
C6_UntrackedUpdateIsNoOp ==
  [][ (lastCall' = "UpdateService" /\ TrackedEqual(apiSvc[SvcName], apiSvc'[SvcName])) =>
        (lastOps' = <<>> /\ serviceInfo' = serviceInfo /\ flowCache' = flowCache
         /\ ipt' = ipt) ]_allVars

\* ---- C7
SliceCalls == {"AddEndpointSlice", "UpdateEndpointSlice", "DeleteEndpointSlice"}
RuleOps == {"addServiceRules", "delServiceRules"}
NoRuleOps(ops) == \A i \in 1..Len(ops) : ops[i].op \notin RuleOps
LocalAddrs(slices) ==
  { e.addr : e \in { x \in UNION { sl.eps : sl \in slices } : x.node = thisNode } }
IsLBWithNodePortAllocation(svc) ==
  svc.type = "LoadBalancer" /\ svc.alloc # "false" /\ svc.clusterIP # ""

\* the slice event `calls` finds a record of a live LoadBalancer service with
\* node-port allocation, the local addresses of the slices after the event
\* differ from the recorded ones and the host-network status after the event
\* is the recorded one
EndpointChurn(calls) ==
  /\ lastCall' \in calls
  /\ HasRecord /\ Live
  /\ IsLBWithNodePortAllocation(apiSvc[SvcName])
  /\ serviceInfo[SvcName].localEndpoints.set
       # LocalAddrs({ apiSlices'[i] : i \in DOMAIN apiSlices' })
  /\ serviceInfo[SvcName].hasLocalHostNetworkEp
       = (\E a \in LocalAddrs({ apiSlices'[i] : i \in DOMAIN apiSlices' }) : a \in NodeIPs)

\* C7 (as stated): for a LoadBalancer service with node-port allocation that
\* has a record, an AddEndpointSlice, UpdateEndpointSlice or
\* DeleteEndpointSlice that changes the local endpoints but not the
\* host-network status deletes and installs no rule.
C7_NoReinstallOnEndpointChurn ==
  [][ EndpointChurn(SliceCalls) => NoRuleOps(lastOps') ]_allVars

\* C7 (amended): the suppression is AddEndpointSlice's: for such a service an
\* AddEndpointSlice that changes the local endpoints but not the host-network
\* status deletes and installs no rule and stores the new endpoints in the
\* record (DeleteEndpointSlice always reinstalls, UpdateEndpointSlice
\* reinstalls whenever the local endpoints changed).
C7_AddEndpointSliceSuppressesChurn ==
  [][ EndpointChurn({"AddEndpointSlice"}) =>
        /\ NoRuleOps(lastOps')
        /\ flowCache' = flowCache /\ ipt' = ipt
        /\ serviceInfo'[SvcName].localEndpoints.set
             = LocalAddrs({ apiSlices'[i] : i \in DOMAIN apiSlices' }) ]_allVars

\* the first slice of a tracked LoadBalancer service arrived with a local pod
\* endpoint and nothing was reinstalled
C7_Witness ==
  /\ lastCall = "AddEndpointSlice" /\ lastOps = <<>> /\ ~lastErr
  /\ Live /\ IsLBWithNodePortAllocation(apiSvc[SvcName])
  /\ Cardinality(DOMAIN apiSlices) = 1
  /\ HasRecord /\ serviceInfo[SvcName].localEndpoints = MkSet({"10.0.0.5"})
  /\ SvcIptRules # {}

\* ---- C8
\* the handler call of this step has nothing to do: AddService or
\* DeleteService of an ineligible service, AddEndpointSlice for a service
\* that is ineligible or that the lister does not hold
IneligibleCall ==
  \/ lastCall' \in {"AddService", "DeleteService"} /\ ~Eligible(apiSvc[SvcName])
  \/ lastCall' = "AddEndpointSlice" /\ (~Live \/ ~Eligible(apiSvc[SvcName]))

\* C8: AddService, DeleteService and AddEndpointSlice leave the record map,
\* the flow cache, the packet-filter rules and conntrack untouched and return
\* no error when the service is ineligible; AddEndpointSlice does the same
\* when the owning service is not found.
C8_IneligibleIsNoOp ==
  [][ IneligibleCall =>
        /\ serviceInfo' = serviceInfo /\ flowCache' = flowCache /\ ipt' = ipt
        /\ flowChan' = flowChan
        /\ lastOps' = <<>> /\ ~lastErr' ]_allVars

\* AddService ran on an ExternalName service that carries an external IP
C8_Witness ==
  /\ lastCall = "AddService"
  /\ Live /\ ~Eligible(apiSvc[SvcName]) /\ apiSvc[SvcName].externalIPs # <<>>
  /\ ~HasRecord /\ SvcFlowKeys = {} /\ SvcIptRules = {} /\ lastOps = <<>> /\ ~lastErr

\* ---- C9
\* C9: AddService on an eligible service creates the record and installs the
\* rules only if the key has no record; if a record exists (created by an
\* earlier AddEndpointSlice) it leaves the record as it is and performs no
\* rule operation; and an AddEndpointSlice that finds the record with the
\* endpoint state it computes installs nothing: in either order of the two
\* events the rules are installed once.
C9_AddServiceInstallsOnlyWithoutRecord ==
  [][ /\ (lastCall' = "AddService" /\ Eligible(apiSvc[SvcName])) =>
           IF HasRecord
           THEN /\ serviceInfo' = serviceInfo /\ lastOps' = <<>>
                /\ flowCache' = flowCache /\ ipt' = ipt
           ELSE /\ SvcName \in DOMAIN serviceInfo'
                /\ serviceInfo'[SvcName].service = apiSvc[SvcName]
                /\ lastOps' = << Op("addServiceRules", SvcName, "", 0) >>
      /\ (/\ lastCall' = "AddEndpointSlice" /\ Live /\ Eligible(apiSvc[SvcName])
          /\ HasRecord
          /\ serviceInfo[SvcName].localEndpoints
               = MkSet(LocalAddrs({ apiSlices'[i] : i \in DOMAIN apiSlices' }))
          /\ serviceInfo[SvcName].hasLocalHostNetworkEp
               = (\E a \in LocalAddrs({ apiSlices'[i] : i \in DOMAIN apiSlices' }) :
                    a \in NodeIPs)) =>
           NoRuleOps(lastOps')
    ]_allVars

\* the add event of a service arrived after an AddEndpointSlice had created
\* the record and installed the rules
C9_Witness ==
  /\ lastCall = "AddService" /\ lastOps = <<>> /\ ~addPending
  /\ Live /\ Eligible(apiSvc[SvcName])
  /\ HasRecord /\ serviceInfo[SvcName].hasLocalHostNetworkEp
  /\ SvcFlowKeys # {} /\ SvcIptRules # {}

\* ---- C10
\* C10: when the installation of the rules fails during AddService on an
\* eligible service without a record, AddService returns an error and the
\* record of the key exists afterwards.
C10_FailedInstallKeepsRecord ==
  [][ (/\ lastCall' = "AddService" /\ Eligible(apiSvc[SvcName]) /\ ~HasRecord
       /\ failBudget' < failBudget) =>
        (lastErr' /\ SvcName \in DOMAIN serviceInfo'
         /\ serviceInfo'[SvcName].service = apiSvc[SvcName]) ]_allVars

\* AddService failed to install the packet-filter rules of a NodePort
\* service and left the record
C10_Witness ==
  /\ lastCall = "AddService" /\ lastErr /\ failed
  /\ lastOps = << Op("addServiceRules", SvcName, "", 0) >>
  /\ HasRecord /\ serviceInfo[SvcName].service.type = "NodePort"
  /\ SvcIptRules = {}

\* ---- C11
\* UpdateService runs in this step with a change in a tracked field
RelevantUpdate ==
  lastCall' = "UpdateService" /\ ~TrackedEqual(apiSvc[SvcName], apiSvc'[SvcName])

\* C11: UpdateService with a relevant change replaces only the stored Service
\* of the record: the flag and the local endpoints of the record are the same
\* after the call as before it, and the rules it installs are those of the new
\* Service with exactly that cached endpoint state.
C11_UpdateServiceKeepsEndpointState ==
  [][ (RelevantUpdate /\ HasRecord) =>
        /\ SvcName \in DOMAIN serviceInfo'
        /\ serviceInfo'[SvcName] = [serviceInfo[SvcName] EXCEPT !.service = apiSvc'[SvcName]]
        /\ Eligible(apiSvc'[SvcName]) =>
             /\ getGatewayIPTRules(apiSvc'[SvcName], List(serviceInfo[SvcName].localEndpoints),
                                   serviceInfo[SvcName].hasLocalHostNetworkEp) \subseteq ipt'
             /\ \A k \in NeededFlowKeys(apiSvc'[SvcName],
                                        serviceInfo[SvcName].hasLocalHostNetworkEp) :
                  /\ k \in DOMAIN flowCache'
                  /\ flowCache'[k].kind \in {"case1", "arp+case1"}
                       <=> (apiSvc'[SvcName].etp = "Local"
                            /\ serviceInfo[SvcName].hasLocalHostNetworkEp)
    ]_allVars

\* an update of a service whose record holds a host-networked local endpoint
C11_Witness ==
  /\ lastCall = "UpdateService" /\ Len(lastOps) = 2
  /\ HasRecord /\ serviceInfo[SvcName].hasLocalHostNetworkEp
  /\ serviceInfo[SvcName].localEndpoints = MkSet({"192.168.1.1"})
  /\ serviceInfo[SvcName].service = apiSvc[SvcName]
  /\ \E k \in SvcFlowKeys : flowCache[k].kind = "case1"

\* ---- C12
HasOp(ops, name) == \E i \in 1..Len(ops) : ops[i].op = name

\* C12: for UpdateService(old, new) with a relevant change the rules of old
\* are deleted if and only if old is eligible and the rules of new are
\* installed if and only if new is eligible, each independently of the other:
\* an update from an ineligible old to an eligible new installs the rules of
\* new.
C12_UpdateServiceEligibilityIndependent ==
  [][ RelevantUpdate =>
        /\ HasOp(lastOps', "delServiceRules") <=> Eligible(apiSvc[SvcName])
        /\ HasOp(lastOps', "addServiceRules") <=> Eligible(apiSvc'[SvcName])
    ]_allVars

\* ---- C13
\* the conntrack purges among the operations of a call
Purged(ops) == { <<ops[i].a, ops[i].b, ops[i].n>> : i \in { j \in 1..Len(ops) : ops[j].op = "conntrack" } }

\* C13: DeleteService on an eligible service removes the record and deletes
\* the rules if a record was found; whether or not one was found it purges
\* conntrack for every port of every cluster IP, external IP and load-balancer
\* ingress IP and, for a type that exposes node ports, for every pair of a
\* node IP and a node port.
C13_DeleteServicePurgesConntrack ==
  [][ (lastCall' = "DeleteService" /\ Live /\ Eligible(apiSvc[SvcName])) =>
        LET service == apiSvc[SvcName] IN
        /\ SvcName \notin DOMAIN serviceInfo'
        /\ HasOp(lastOps', "delServiceRules") <=> HasRecord
        /\ HasRecord =>
             /\ lastOps'[1].op = "delServiceRules"
             /\ RecordRules(serviceInfo[SvcName]) \cap ipt' = {}
             /\ \A hn \in BOOLEAN :
                  NeededFlowKeys(serviceInfo[SvcName].service, hn) \cap DOMAIN flowCache' = {}
        /\ \A p \in RangeOf(service.ports) :
             /\ \A ip \in {service.clusterIP} \cup GetExternalAndLBIPs(service) :
                  <<ip, p.protocol, p.port>> \in Purged(lastOps')
             /\ ServiceTypeHasNodePort(service) =>
                  \A nodeIP \in RangeOf(NodeIPList) :
                    <<nodeIP, p.protocol, p.nodePort>> \in Purged(lastOps')
    ]_allVars

\* the deletion of a node-port service that has no record: no rule deletion,
\* cluster IP and node port are purged all the same
C13_Witness ==
  /\ lastCall = "DeleteService" /\ ~Live /\ ~HasRecord
  /\ ~HasOp(lastOps, "delServiceRules")
  /\ \E nodeIP \in RangeOf(NodeIPList) : <<nodeIP, "tcp", 30080>> \in Purged(lastOps)
  /\ <<"10.96.0.1", "tcp", 80>> \in Purged(lastOps)

\* ---- C14
\* C14: AddEndpointSlice stores, and installs with, the local-endpoint set
\* computed over all the slices the service has at the time of the call, not
\* over the slice of the event alone: with two slices of disjoint addresses
\* the record holds the local addresses of both after the second call.
C14_AddEndpointSliceUsesAllSlices ==
  [][ (lastCall' = "AddEndpointSlice" /\ Live /\ Eligible(apiSvc[SvcName])) =>
        /\ SvcName \in DOMAIN serviceInfo'
        /\ serviceInfo'[SvcName].localEndpoints = MkSet(LocalAddrs(LiveSlices'))
        /\ HasOp(lastOps', "addServiceRules") =>
             getGatewayIPTRules(apiSvc[SvcName], List(MkSet(LocalAddrs(LiveSlices'))),
                                LiveLocalHostNetworkEp') \subseteq ipt'
    ]_allVars

\* the second of two slices with disjoint local addresses has been added
C14_Witness ==
  /\ lastCall = "AddEndpointSlice" /\ HasRecord
  /\ \E i, j \in DOMAIN apiSlices :
       /\ apiSlices[i].eps = {EpPodA} /\ apiSlices[j].eps = {EpHost}
  /\ serviceInfo[SvcName].localEndpoints = MkSet({"10.0.0.5", "192.168.1.1"})

\* ---- C15
\* the slices an EndpointSlice deletion removes in this step
DeletedSlices == { apiSlices[i] : i \in DOMAIN apiSlices \ DOMAIN apiSlices' }

\* C15: after DeleteEndpointSlice on a service with a record, the record's
\* local endpoints are those of the remaining slices only: no address that
\* was solely in the deleted slice is in the record, whether the lister
\* still returns slices or answers not-found.
C15_DeletedSliceAddressesLeaveRecord ==
  [][ (lastCall' = "DeleteEndpointSlice" /\ HasRecord) =>
        /\ SvcName \in DOMAIN serviceInfo'
        /\ \A a \in LocalAddrs(DeletedSlices) \ LocalAddrs(LiveSlices') :
             a \notin serviceInfo'[SvcName].localEndpoints.set
    ]_allVars

\* ---- C16
\* DeleteEndpointSlice is between its update of the record and the end of its
\* delete-then-install
InDeleteThenInstall == race.des \in {"Lock", "delServiceRules", "addServiceRules"}

\* C16: in every interleaving of DeleteEndpointSlice and DeleteService on the
\* same service, the fetch-and-remove of DeleteService does not happen between
\* DeleteEndpointSlice's update of the record and the end of its
\* delete-then-install, so no interleaving ends with the rules of the service
\* installed while its record is absent.
C16_NoRulesWithoutRecordAfterRace ==
  /\ [][ lastCall' = "DS_getAndDeleteServiceInfo" => ~InDeleteThenInstall ]_allVars
  /\ [] ( (race.des = "done" /\ race.ds = "done" /\ ~HasRecord)
            => (SvcFlowKeys = {} /\ SvcIptRules = {}) )

\* ---- C17
\* what a handler leaves behind, without the error it returns
Effect(st) == [si |-> st.si, fc |-> st.fc, ipt |-> st.ipt, ops |-> st.ops]
EffectOfStep ==
  [si |-> serviceInfo', fc |-> flowCache', ipt |-> ipt', ops |-> lastOps']

\* the slice an UpdateEndpointSlice of this step replaces
UpdatedIds == { i \in DOMAIN apiSlices : apiSlices'[i] # apiSlices[i] }
OldSlice == apiSlices[CHOOSE i \in UpdatedIds : TRUE]
NewSlice == apiSlices'[CHOOSE i \in UpdatedIds : TRUE]
ListerAfter == Lister(apiSvc, apiSlices', listerNF, TRUE)

\* UpdateEndpointSlice runs in this step; the service has no record
UpdateWithoutRecord == lastCall' = "UpdateEndpointSlice" /\ ~HasRecord
\* UpdateEndpointSlice runs in this step; the service has a record and the
\* new slice has no endpoint
UpdateToEmpty ==
  lastCall' = "UpdateEndpointSlice" /\ HasRecord /\ GetEndpointAddresses({NewSlice}) = {}

IsPrefix(s, t) == Len(s) <= Len(t) /\ SubSeq(t, 1, Len(s)) = s

\* C17 (as stated): UpdateEndpointSlice(old, new) with differing address sets
\* has exactly the effect of one AddEndpointSlice(new) when the service has no
\* record, and exactly the effect of one DeleteEndpointSlice(old) when it has
\* one and new has no endpoint, with no further rule deletion or installation.
C17_UpdateIsOneAddOrOneDelete ==
  [][ /\ UpdateWithoutRecord =>
           EffectOfStep = Effect(AddEndpointSlice(Cur, NewSlice, ListerAfter))
      /\ UpdateToEmpty =>
           EffectOfStep = Effect(DeleteEndpointSlice(Cur, OldSlice, ListerAfter))
    ]_allVars

\* the flag of the old slice alone differs from the flag over all slices
PartialFlagDiffers ==
  HasLocalHostNetworkEndpoints(GetLocalEndpointAddresses({OldSlice}), NodeIPs)
    # HasLocalHostNetworkEndpoints(GetLocalEndpointAddresses(LiveSlices'), NodeIPs)

\* C17 (amended): UpdateEndpointSlice(old, new) with differing address sets
\* begins with the operations of AddEndpointSlice(new) when the service has no
\* record, and with those of DeleteEndpointSlice(old) when it has one and new
\* has no endpoint. The comparison that follows may delete and reinstall
\* once more. Without a record it does so exactly when the first step created
\* a record and the flag of the old slice alone differs from the flag over
\* all slices, and the state it ends in is that of AddEndpointSlice(new).
\* With a record and an empty new slice it does so exactly when the old slice
\* alone or the slices together hold a local host-networked endpoint;
\* otherwise the effect is that of DeleteEndpointSlice(old).
C17_UpdateBeginsWithAddOrDelete ==
  [][ /\ UpdateWithoutRecord =>
           \A add \in {Effect(AddEndpointSlice(Cur, NewSlice, ListerAfter))} :
              /\ IsPrefix(add.ops, lastOps')
              /\ (lastOps' # add.ops) <=> (SvcName \in DOMAIN add.si /\ PartialFlagDiffers)
              /\ [EffectOfStep EXCEPT !.ops = <<>>] = [add EXCEPT !.ops = <<>>]
      /\ UpdateToEmpty =>
           LET hnOld == HasLocalHostNetworkEndpoints(GetLocalEndpointAddresses({OldSlice}), NodeIPs)
               hnNew == HasLocalHostNetworkEndpoints(GetLocalEndpointAddresses(LiveSlices'), NodeIPs)
           IN \A del \in {Effect(DeleteEndpointSlice(Cur, OldSlice, ListerAfter))} :
              /\ IsPrefix(del.ops, lastOps')
              /\ (lastOps' # del.ops) <=> (hnOld \/ hnNew)
              /\ (lastOps' = del.ops) => EffectOfStep = del
    ]_allVars

\* an update without a record whose comparison deleted and reinstalled after
\* the rules had been installed
C17_Witness ==
  /\ lastCall = "UpdateEndpointSlice" /\ HasRecord
  /\ Len(lastOps) = 3
  /\ lastOps[1].op = "addServiceRules" /\ lastOps[2].op = "delServiceRules"
  /\ lastOps[3].op = "addServiceRules"

\* ---- C18
\* the record holds what the slices before the step give
RecordMatchesSlices ==
  /\ HasRecord
  /\ serviceInfo[SvcName].localEndpoints = MkSet(LocalAddrs(LiveSlices))
  /\ serviceInfo[SvcName].hasLocalHostNetworkEp = LiveLocalHostNetworkEp

\* local-endpoint set and flag over all slices are the same before and after
TotalsUnchanged ==
  /\ LocalAddrs(LiveSlices') = LocalAddrs(LiveSlices)
  /\ LiveLocalHostNetworkEp' = LiveLocalHostNetworkEp

\* C18: UpdateEndpointSlice on a service with a record and a non-empty new
\* slice deletes and reinstalls the rules if and only if the local-endpoint
\* set or the host-network flag computed over all slices differs between
\* before and after; with unchanged totals there is no rule operation, even
\* if the old slice alone has another host-network status than the totals.
C18_ReinstallIffTotalsChange ==
  [][ (/\ lastCall' = "UpdateEndpointSlice"
       /\ RecordMatchesSlices
       /\ GetEndpointAddresses({NewSlice}) # {})
        => (NoRuleOps(lastOps') <=> TotalsUnchanged)
    ]_allVars

\* ---- C19
\* SyncServices runs in this step over the live service and returns no error
SyncReturnsNoError ==
  lastCall' \in {"SyncServices", "SyncServices again"} /\ ~lastErr' /\ Live

\* the slice listing of the service answers not-found
ListingNotFound == listerNF /\ LiveSlices = {}

\* after the step the service has the record and the flow-cache keys of its
\* recomputed state
SyncedAfterStep ==
  /\ SvcName \in DOMAIN serviceInfo'
  /\ serviceInfo'[SvcName] =
       serviceConfig(apiSvc[SvcName], LiveLocalHostNetworkEp, MkSet(LocalAddrs(LiveSlices)))
  /\ SvcFlowKeys' = NeededFlowKeys(apiSvc[SvcName], LiveLocalHostNetworkEp)

\* C19 (as stated): after SyncServices returns without error every service of
\* its list has a record equal to the service with the recomputed flag and
\* local-endpoint set and the flow-cache entries of that state, also a
\* service whose slice listing answers not-found (taken as zero endpoints).
C19_SyncServicesCoversEveryService ==
  [][ SyncReturnsNoError => SyncedAfterStep ]_allVars

\* after the step the service has the record of its recomputed state, the
\* cache holds every entry of that state with the flows of that state, and
\* no other entry of the service is new
RecordAndEntriesAfterStep ==
  LET svc == apiSvc[SvcName]
      fresh == updateServiceFlowCache(EmptyMap, svc, TRUE, LiveLocalHostNetworkEp).fc
  IN /\ SvcName \in DOMAIN serviceInfo'
     /\ serviceInfo'[SvcName] =
          serviceConfig(svc, LiveLocalHostNetworkEp, MkSet(LocalAddrs(LiveSlices)))
     /\ DOMAIN fresh = NeededFlowKeys(svc, LiveLocalHostNetworkEp)
     /\ \A k \in DOMAIN fresh : k \in DOMAIN flowCache' /\ flowCache'[k] = fresh[k]
     /\ SvcFlowKeys' \ SvcFlowKeys \subseteq DOMAIN fresh

\* C19 (amended): after SyncServices returns without error every service of
\* its list whose slice listing succeeds has a record equal to the service
\* with the recomputed flag and local-endpoint set, and the flow cache holds
\* the entries of that state (an entry that an earlier shape of the service
\* left behind stays); a service whose listing answers not-found is skipped:
\* its record, if any, and the flow cache are left as they were.
C19_SyncServicesCoversListedSlices ==
  [][ SyncReturnsNoError =>
        IF ListingNotFound
        THEN serviceInfo' = serviceInfo /\ flowCache' = flowCache
        ELSE RecordAndEntriesAfterStep
    ]_allVars

\* SyncServices has written the record of a listed service that has a local
\* host-networked endpoint, under a lister that answers not-found for a
\* service without slices
C19_Witness ==
  /\ lastCall = "SyncServices" /\ ~lastErr /\ Live /\ listerNF
  /\ LiveSlices # {}
  /\ HasRecord /\ serviceInfo[SvcName].service = apiSvc[SvcName]
  /\ serviceInfo[SvcName].service.label = "v2"
  /\ serviceInfo[SvcName].hasLocalHostNetworkEp

\* ---- C20
\* C20: requestFlowSync never blocks and at most one sync signal is pending;
\* every handler step that changes the flow cache leaves a signal pending
\* behind it; and with the apply loop scheduled fairly a pending signal leads
\* to a bridge flow table that equals the union of the entries then in the
\* cache, so that after the last change of the cache the table eventually
\* equals the cache.
C20_FlowSyncReachesBridge ==
  /\ [] (flowChan \in {0, 1})
  /\ [][ flowCache' # flowCache => flowChan' = 1 ]_allVars
  /\ (flowChan = 1) ~> (flowChan = 0 /\ bridgeFlows = FlowTable(flowCache))

\* the apply loop has written the flows of a service to the bridge and no
\* signal is pending
C20_Witness ==
  /\ flowChan = 0 /\ lastCall = "ApplyLoop"
  /\ bridgeFlows = FlowTable(flowCache)
  /\ SvcFlowKeys # {}

\* ---- C21
\* the addresses the default flows of a flow table reference
DefaultFlowAddrs(table) ==
  UNION { e.flows.hairpin : e \in { x \in table : x.cookie = DefaultKey("DEFAULT") } }

\* C21: each run of the address-change callback regenerates the DEFAULT entry
\* from the node's current address list and leaves a sync signal pending, so
\* that once the signal has been taken no default flow of the bridge
\* references an address the node no longer owns.
C21_AddressChangeRegeneratesDefaultFlows ==
  /\ [][ lastCall' = "OnChanged" =>
           /\ flowCache'[DefaultKey("DEFAULT")]
                = flowsForDefaultBridge(ListAddresses(nodeAddrs'))
           /\ flowChan' = 1 ]_allVars
  /\ [] (flowChan = 0 => DefaultFlowAddrs(bridgeFlows) \subseteq ListAddresses(nodeAddrs))
  /\ (flowChan = 1) ~>
       (flowChan = 0 /\ DefaultFlowAddrs(bridgeFlows) \subseteq ListAddresses(nodeAddrs))

\* the node's address set has changed twice and the sync after the second
\* callback has left the bridge with the hairpin flow of the one address the
\* node owns now
C21_Witness ==
  /\ lastCall = "ApplyLoop" /\ flowChan = 0 /\ budget = 0
  /\ nodeAddrs = {"fd00::2"}
  /\ DefaultFlowAddrs(bridgeFlows) = {"fd00::2"}
  /\ apiSvc = EmptyMap


\* ---- C22
\* a handler of another key is at its access to the record map while
\* DeleteEndpointSlice performs its rule deletion or installation with
\* serviceInfoLock held
OtherKeyWaitsForRules ==
  /\ race.dsOther = "getAndDeleteServiceInfo"
  /\ race.lock # ""
  /\ race.des \in {"delServiceRules", "addServiceRules"}

\* C22: no handler holds the record-map mutex while it deletes or installs
\* the rules of its own key, so the rule operations for one key never make a
\* handler for another key wait.
C22_RuleOpsNeverBlockOtherKeys ==
  /\ ~OtherKeyWaitsForRules
  /\ ~(race.lock # "" /\ race.des \in {"delServiceRules", "addServiceRules"})

\* C22 (amended): between the calls of a handler the record-map mutex is held
\* only by DeleteEndpointSlice, from its Lock to the end of its rule deletion
\* and installation; the accessors of every handler, of whichever key, run
\* only while it is free, and DeleteService deletes its rules without it.
C22_OnlyDeleteEndpointSliceHoldsLockOverRules ==
  /\ [] ( (race.lock = "DES") <=> (race.des \in {"delServiceRules", "addServiceRules"}) )
  /\ [] ( race.lock \in {"", "DES"} )
  /\ [][ lastCall' \in {"DSO_getAndDeleteServiceInfo", "DS_getAndDeleteServiceInfo",
                        "DES_updateServiceInfo"}
           => (race.lock = "" /\ race'.lock = "") ]_allVars
  /\ [][ lastCall' = "DS_delServiceRules" => race'.lock = race.lock ]_allVars

\* DeleteEndpointSlice has deleted the rules of its key and is about to
\* install them again, and the DeleteService of the other key has not got the
\* mutex yet
C22_Witness ==
  /\ race.des = "addServiceRules"
  /\ race.lock = "DES"
  /\ race.dsOther = "getAndDeleteServiceInfo"
  /\ lastCall = "DES_delServiceRules"


\* ---- C23
\* C23: a handler's read-modify-write of a record runs under the record-map
\* mutex for its whole duration: while DeleteEndpointSlice is between its
\* update of the record and the end of the delete-then-install it decided on
\* from that record, the record is still in the map with the contents the
\* handler left.
C23_RecordStableWhileDecisionApplied ==
  InDeleteThenInstall =>
    /\ HasRecord
    /\ serviceInfo[SvcName].service = race.desConfig.service
    /\ serviceInfo[SvcName].localEndpoints = race.localEndpoints


\* ---- C24
\* the services with a node port, under either external traffic policy
NodePortServices ==
  { [s EXCEPT !.etp = e] : s \in { x \in Services : ServiceTypeHasNodePort(x) },
                           e \in {"Local", "Cluster"} }

\* the node ports of a service paired with the flow protocols of the enabled
\* families
NodePortKeys(svc) ==
  UNION { { <<p, fp>> : fp \in FlowProtocols(p.protocol) } :
            p \in { q \in RangeOf(svc.ports) : q.nodePort > 0 } }

\* C24: for a service with node ports, updateServiceFlowCache(svc, add=true,
\* hasLocalHostNetworkEp) stores under the key of every node port and enabled
\* family the DNAT-to-host group (case1, towards the gateway IP of the family)
\* when the policy is Local and hasLocalHostNetworkEp is true, and in shared
\* gateway mode the steer-to-OVN group (case2) when hasLocalHostNetworkEp is
\* false or the policy is Cluster.
C24_NodePortFlowVariant ==
  \A svc \in NodePortServices, hn \in BOOLEAN :
    \A r \in {updateServiceFlowCache(flowCache, svc, TRUE, hn)} :
      \A k \in NodePortKeys(svc) :
        LET key == FlowKey("NodePort", svc, k[2], k[1].nodePort)
        IN /\ (ServiceExternalTrafficPolicyLocal(svc) /\ hn) =>
                /\ key \in DOMAIN r.fc
                /\ r.fc[key] = Flows("case1",
                                     IF Contains6(k[2]) THEN gatewayIPv6 ELSE gatewayIPv4,
                                     k[1].targetPort)
           /\ (~(ServiceExternalTrafficPolicyLocal(svc) /\ hn) /\ gwMode = "shared") =>
                /\ key \in DOMAIN r.fc
                /\ r.fc[key] = Flows("case2", "", "")

\* a NodePort service with policy Local has got a host-networked local
\* endpoint, and the cache holds the case1 group for both families
C24_Witness ==
  /\ lastCall = "AddEndpointSlice"
  /\ HasOp(lastOps, "addServiceRules")
  /\ HasRecord
  /\ serviceInfo[SvcName].service = SvcNodePort
  /\ serviceInfo[SvcName].hasLocalHostNetworkEp
  /\ \A fp \in {"tcp", "tcp6"} :
       /\ FlowKey("NodePort", SvcNodePort, fp, 30080) \in DOMAIN flowCache
       /\ flowCache[FlowKey("NodePort", SvcNodePort, fp, 30080)].kind = "case1"


\* ---- C25
\* the handler that ran in this step looked up the owning service or the
\* slices of the service and got not-found
LookupNotFoundInStep ==
  \/ /\ lastCall' = "AddService"
     /\ Eligible(apiSvc'[SvcName])
     /\ SlicesNotFound(Lister(apiSvc', apiSlices', listerNF, TRUE), SvcName)
  \/ /\ lastCall' \in {"AddEndpointSlice", "AddEndpointSlice (retry)",
                       "DeleteEndpointSlice", "UpdateEndpointSlice"}
     /\ \/ SvcName \notin DOMAIN apiSvc'
        \/ /\ Eligible(apiSvc'[SvcName])
           /\ SlicesNotFound(Lister(apiSvc', apiSlices', listerNF, TRUE), SvcName)

\* C25: when the lookup of the owning service or of the service's slices
\* answers not-found, AddService, AddEndpointSlice, DeleteEndpointSlice and
\* UpdateEndpointSlice return no error.
C25_NotFoundIsNotAnError ==
  [][ LookupNotFoundInStep => ~lastErr' ]_allVars

\* ---- C26
\* C26: for a slice without the service-name label AddEndpointSlice,
\* UpdateEndpointSlice and DeleteEndpointSlice each return an error and leave
\* the record map, the flow cache and the rules as they were.
C26_UnlabelledSliceIsAnError ==
  [][ lastCall' \in {"AddEndpointSlice (no label)", "UpdateEndpointSlice (no label)",
                     "DeleteEndpointSlice (no label)"}
        => /\ lastErr'
           /\ UNCHANGED <<serviceInfo, flowCache, ipt>> ]_allVars


\* ---- C27
\* C27: the wait for the dataplane confirmation of a pod port always ends.
\* ConfigureOVS returns success when the port was marked installed before the
\* deadline of the caller's context and a timed-out error when the deadline
\* came first; after the timed-out return nothing waits for that port again;
\* in both outcomes the port written to the database stays there.
C27_ConfigureOVSWaitEnds ==
  /\ (ovs.pos = "wait") ~> (ovs.pos = "returned")
  /\ [][ lastCall' = "ConfigureOVS_Return" =>
           /\ ovs'.pos = "returned"
           /\ (ovs'.err = "") <=> (ovs.pod \in ovs.installed /\ ~ovs.expired)
           /\ (ovs'.err = "timed out") <=> ovs.expired
           /\ ovs'.ports = ovs.ports /\ ovs'.installed = ovs.installed ]_allVars
  /\ [][ (ovs.pos = "returned" /\ ovs'.pos = "wait") => ovs'.pod \notin ovs.ports ]_allVars
  /\ [][ ovs.ports \subseteq ovs'.ports ]_allVars
  /\ [] (ovs.pos \in {"wait", "returned"} => ovs.pod \in ovs.ports)

\* one ConfigureOVS call has timed out and left its port in the database, and
\* a later call for another pod has returned success
C27_Witness ==
  /\ ovs.pos = "returned" /\ ovs.err = ""
  /\ ovs.pod \in ovs.installed
  /\ \E p \in ovs.ports : p # ovs.pod /\ p \notin ovs.installed


\* ---- C28
\* a second service, of another key, with a node port and an ingress IP; it
\* has no slices
OtherSvcShapes == { [s EXCEPT !.name = SvcOther.name] : s \in {SvcLB} }

\* the positions of the operations of one kind in a call's operations
OpsNamed(ops, name) == { i \in 1..Len(ops) : ops[i].op = name }

\* the operations of one SyncServices call over n services: two cache
\* rewrites per service, then one sync request, and one recreation per chain,
\* none of them before the last cache rewrite
SyncOpsInOrder(ops, n) ==
  /\ Cardinality(OpsNamed(ops, "updateServiceFlowCache")) = 2 * n
  /\ Cardinality(OpsNamed(ops, "requestFlowSync")) = 1
  /\ Cardinality(OpsNamed(ops, "recreateIPTRules")) = Len(SyncChains)
  /\ \A c \in 1..Len(SyncChains) :
       Cardinality({ i \in OpsNamed(ops, "recreateIPTRules") :
                       ops[i].a = SyncChains[c][1] /\ ops[i].b = SyncChains[c][2] }) = 1
  /\ \A i \in OpsNamed(ops, "updateServiceFlowCache") :
       \A j \in OpsNamed(ops, "requestFlowSync") \cup OpsNamed(ops, "recreateIPTRules") :
         i < j

\* the rules a chain holds
ChainRules(rules, c) == { r \in rules : r.table = c[1] /\ r.chain = c[2] }

\* the keep list of a sync over the services: the rules of every service for
\* its slices in the lister
KeepListOf(services) ==
  UNION { getGatewayIPTRules(
            services[i],
            List(GetLocalEndpointAddresses(
                   GetEndpointSlices(Lister(apiSvc, apiSlices, listerNF, TRUE),
                                     services[i].name))),
            HasLocalHostNetworkEndpoints(
              GetLocalEndpointAddresses(
                GetEndpointSlices(Lister(apiSvc, apiSlices, listerNF, TRUE),
                                  services[i].name)), NodeIPs)) :
          i \in 1..Len(services) }

\* C28: SyncServices requests the flow sync exactly once, after the cache
\* entries of all services are rewritten, and recreates every chain exactly
\* once, from the keep list of all services; neither happens inside the
\* per-service loop. Checked on every SyncServices call of a run and, in
\* every state, on a sync over the listed service and a second service.
C28_SyncServicesSyncsOnceAfterLoop ==
  /\ [][ lastCall' \in {"SyncServices", "SyncServices again"} =>
           /\ SyncOpsInOrder(lastOps', Len(SvcList))
           /\ flowChan' = 1
           /\ \A c \in RangeOf(SyncChains) :
                ChainRules(ipt', c) = ChainRules(KeepListOf(SvcList), c) ]_allVars
  /\ [] \A s2 \in OtherSvcShapes :
          \A r \in {SyncServices(Cur, SvcList \o <<s2>>,
                                 Lister(apiSvc, apiSlices, listerNF, TRUE))} :
            /\ SyncOpsInOrder(r.ops, Len(SvcList) + 1)
            /\ r.ch = 1
            /\ \A c \in RangeOf(SyncChains) :
                 ChainRules(r.ipt, c) = ChainRules(KeepListOf(SvcList \o <<s2>>), c)

\* a sync over a service with endpoints has rewritten its entries, requested
\* the flow sync and recreated the chains with its rules
C28_Witness ==
  /\ lastCall = "SyncServices"
  /\ Len(lastOps) = 3 + Len(SyncChains)
  /\ lastOps[3].op = "requestFlowSync"
  /\ SvcIptRules # {} /\ SvcFlowKeys # {}
  /\ flowChan = 1


\* ---- C29
\* the positions at which a call recreates the chain
RecreatedAt(ops, table, chain) ==
  { i \in OpsNamed(ops, "recreateIPTRules") : ops[i].a = table /\ ops[i].b = chain }

\* C29: SyncServices recreates the external-traffic-policy chain before the
\* node-port chain and before the external-IP chain.
C29_ETPChainRecreatedFirst ==
  [][ lastCall' \in {"SyncServices", "SyncServices again"} =>
        \A i \in RecreatedAt(lastOps', "nat", "OVN-KUBE-ETP") :
          \A j \in RecreatedAt(lastOps', "nat", "OVN-KUBE-NODEPORT")
                   \cup RecreatedAt(lastOps', "nat", "OVN-KUBE-EXTERNALIP") :
            i < j ]_allVars


\* the chain recreations among the operations of a call, in their order
IsRecreate(o) == o.op = "recreateIPTRules"
RecreatedChains(ops) ==
  [i \in 1..Len(SelectSeq(ops, IsRecreate)) |->
     <<SelectSeq(ops, IsRecreate)[i].a, SelectSeq(ops, IsRecreate)[i].b>>]

\* C29 (amended): SyncServices recreates the chains in one fixed order: in
\* the nat table the internal-traffic-policy, egress-service, node-port,
\* external-IP, external-traffic-policy and management-port chain, then the
\* internal-traffic-policy chain of the mangle table; the
\* external-traffic-policy chain comes after the node-port and the
\* external-IP chain.
C29_ETPChainRecreatedAfterNodePortAndExternalIP ==
  [][ lastCall' \in {"SyncServices", "SyncServices again"} =>
        /\ RecreatedChains(lastOps') =
             << <<"nat", "OVN-KUBE-ITP">>, <<"nat", "OVN-KUBE-EGRESS-SVC">>,
                <<"nat", "OVN-KUBE-NODEPORT">>, <<"nat", "OVN-KUBE-EXTERNALIP">>,
                <<"nat", "OVN-KUBE-ETP">>, <<"nat", "OVN-KUBE-SNAT-MGMTPORT">>,
                <<"mangle", "OVN-KUBE-ITP">> >>
        /\ \A i \in RecreatedAt(lastOps', "nat", "OVN-KUBE-ETP") :
             \A j \in RecreatedAt(lastOps', "nat", "OVN-KUBE-NODEPORT")
                      \cup RecreatedAt(lastOps', "nat", "OVN-KUBE-EXTERNALIP") :
               j < i ]_allVars

\* a sync has recreated the chains for a service that has a rule in the
\* external-traffic-policy chain
C29_Witness ==
  /\ lastCall = "SyncServices"
  /\ RecreatedAt(lastOps, "nat", "OVN-KUBE-ETP") # {}
  /\ \E r \in ipt : r.table = "nat" /\ r.chain = "OVN-KUBE-ETP"


\* ---- C30
\* the ingress and external addresses of a service that do not parse
FailedIPs(svc) ==
  { ip \in (RangeOf(svc.ingress) \ {""}) \cup RangeOf(svc.externalIPs) : ip \notin ValidIPs }

\* the flow-cache keys of the ingress and external addresses that do parse
ParsedIPKeys(svc) ==
  { FlowKey("Ingress", svc, ip, p.port) :
      ip \in RangeOf(svc.ingress) \cap ValidIPs, p \in RangeOf(svc.ports) }
  \cup { FlowKey("External", svc, ip, p.port) :
           ip \in RangeOf(svc.externalIPs) \cap ValidIPs, p \in RangeOf(svc.ports) }

\* one failure per port and list that holds an address that does not parse
ExpectedErrors(svc) ==
  { FlowKey("Ingress", svc, "<nil>", p.port) :
      p \in { q \in RangeOf(svc.ports) : (RangeOf(svc.ingress) \ {""}) \ ValidIPs # {} } }
  \cup { FlowKey("External", svc, "<nil>", p.port) :
           p \in { q \in RangeOf(svc.ports) : RangeOf(svc.externalIPs) \ ValidIPs # {} } }

\* C30: within one rule-install or rule-delete call a failure for one ingress
\* or external IP does not stop the rest: the entries of all other addresses
\* and of the node ports are still written or deleted, the packet-filter
\* rules are still handled, and the call returns an error exactly when a
\* sub-operation failed, with every failure in it.
C30_FailuresAreAggregated ==
  /\ [] \A svc \in {SvcBadIPs, SvcLB}, add \in BOOLEAN, hn \in BOOLEAN :
          \A r \in {updateServiceFlowCache(flowCache, svc, add, hn)} :
            /\ r.err <=> (FailedIPs(svc) # {})
            /\ r.errors = ExpectedErrors(svc)
            /\ add => /\ ParsedIPKeys(svc) \subseteq DOMAIN r.fc
                      /\ \A k \in ParsedIPKeys(svc) :
                           r.fc[k] = updateServiceFlowCache(
                                       EmptyMap, [svc EXCEPT !.ingress = <<"1.2.3.4">>,
                                                             !.externalIPs = <<"5.6.7.8">>],
                                       TRUE, hn).fc[k]
            /\ ~add => /\ ParsedIPKeys(svc) \cap DOMAIN r.fc = {}
                       /\ \A k \in DOMAIN r.fc : ~(k.t = "NodePort" /\ k.name = svc.name)
            /\ \A pair \in NodePortKeys(svc) :
                 (add /\ (gwMode = "shared" \/ hn)) =>
                   FlowKey("NodePort", svc, pair[2], pair[1].nodePort) \in DOMAIN r.fc
  /\ [][ (lastCall' = "AddService" /\ ~HasRecord /\ Eligible(apiSvc[SvcName])) =>
           /\ lastErr' <=> (FailedIPs(apiSvc[SvcName]) # {})
           /\ ParsedIPKeys(apiSvc[SvcName]) \subseteq DOMAIN flowCache'
           /\ RecordRules(serviceInfo'[SvcName]) \subseteq ipt'
           /\ flowChan' = 1 ]_allVars
  /\ [][ (lastCall' = "DeleteService" /\ HasRecord /\ Eligible(apiSvc[SvcName])) =>
           /\ lastErr' <=> (FailedIPs(serviceInfo[SvcName].service) # {})
           /\ ParsedIPKeys(serviceInfo[SvcName].service) \cap DOMAIN flowCache' = {}
           /\ RecordRules(serviceInfo[SvcName]) \cap ipt' = {}
           /\ flowChan' = 1 ]_allVars

\* AddService has returned an error for the service with malformed
\* addresses, and the entries of its well-formed ingress and external
\* address are in the cache
C30_Witness ==
  /\ lastCall = "AddService" /\ lastErr
  /\ HasRecord /\ serviceInfo[SvcName].service = SvcBadIPs
  /\ FlowKey("Ingress", SvcBadIPs, "1.2.3.4", 80) \in DOMAIN flowCache
  /\ FlowKey("External", SvcBadIPs, "5.6.7.8", 80) \in DOMAIN flowCache
  /\ RecordRules(serviceInfo[SvcName]) \subseteq ipt

\* ------------------------------------------------------------------
\* the flows of a list whose match is of the family
OfFamily(flows, fam) == SelectSeq(flows, LAMBDA f : f.fam = fam)
\* the flows of a list that are emitted in both gateway modes
OfBothModes(flows) == SelectSeq(flows, LAMBDA f : f.mode = "")
\* the configuration with one family switched
WithIPv4(config, on) == [config EXCEPT !.IPv4Mode = on]
WithIPv6(config, on) == [config EXCEPT !.IPv6Mode = on]
\* the bridge holds an address of the family
BridgeHasFamily(bridge, isIPv6) ==
  \E i \in 1..Len(bridge.ips) : IsIPv6String(bridge.ips[i]) = isIPv6
\* the flows of the family are those the same configuration yields with the
\* other family switched off, for both functions
FamilyFlowsAlone(config, bridge, extraIPs) ==
  LET both == WithIPv6(WithIPv4(config, TRUE), TRUE)
      only4 == WithIPv6(both, FALSE)
      only6 == WithIPv4(both, FALSE)
      subnets == config.ClusterSubnets
  IN /\ OfFamily(flowsForDefaultBridgeOf(both, bridge, extraIPs).flows, "ip")
          = OfFamily(flowsForDefaultBridgeOf(only4, bridge, extraIPs).flows, "ip")
     /\ OfFamily(flowsForDefaultBridgeOf(both, bridge, extraIPs).flows, "ipv6")
          = OfFamily(flowsForDefaultBridgeOf(only6, bridge, extraIPs).flows, "ipv6")
     /\ OfFamily(commonFlows(both, subnets, bridge).flows, "ip")
          = OfFamily(commonFlows(only4, subnets, bridge).flows, "ip")
     /\ OfFamily(commonFlows(both, subnets, bridge).flows, "ipv6")
          = OfFamily(commonFlows(only6, subnets, bridge).flows, "ipv6")

\* C31 (as stated): for every bridge configuration, the IPv4 flows of
\* flowsForDefaultBridge and of commonFlows with both families enabled are
\* those with IPv4 alone, and likewise for IPv6
C31_FamilyFlowsSameForEveryBridge ==
  gen.pos # "idle" => FamilyFlowsAlone(gen.config, gen.bridge, gen.extraIPs)

\* C31 (amended): on a bridge that holds an address of each family the flows
\* of one family are the same with both families enabled as with that family
\* alone, and the flows outside the local-gateway branch are the same in both
\* gateway modes; on a bridge that lacks an address of an enabled family the
\* generation fails and yields no flow of either family
C31_FamilyFlowsSameWhenBridgeHasBothFamilies ==
  /\ (gen.pos # "idle" /\ BridgeHasFamily(gen.bridge, FALSE) /\ BridgeHasFamily(gen.bridge, TRUE))
       => FamilyFlowsAlone(gen.config, gen.bridge, gen.extraIPs)
  /\ gen.pos = "generated" =>
       LET config == gen.config
           subnets == config.ClusterSubnets
           lacks == \/ config.IPv4Mode /\ ~BridgeHasFamily(gen.bridge, FALSE)
                    \/ config.IPv6Mode /\ ~BridgeHasFamily(gen.bridge, TRUE)
           shared == DefaultEntry([config EXCEPT !.Mode = "shared"], subnets, gen.bridge, gen.extraIPs)
           local == DefaultEntry([config EXCEPT !.Mode = "local"], subnets, gen.bridge, gen.extraIPs)
       IN /\ (gen.err # "") <=> lacks
          /\ lacks => gen.flows = <<>>
          /\ ~lacks =>
               /\ config.IPv4Mode =>
                    OfFamily(gen.flows, "ip")
                      = OfFamily(DefaultEntry(WithIPv6(config, FALSE), subnets, gen.bridge,
                                              gen.extraIPs).flows, "ip")
               /\ config.IPv6Mode =>
                    OfFamily(gen.flows, "ipv6")
                      = OfFamily(DefaultEntry(WithIPv4(config, FALSE), subnets, gen.bridge,
                                              gen.extraIPs).flows, "ipv6")
               /\ OfBothModes(gen.flows) = shared.flows
               /\ OfBothModes(local.flows) = shared.flows
               /\ Len(local.flows) > Len(shared.flows) <=> (config.IPv4Mode \/ config.IPv6Mode)

\* both families are enabled on a bridge with an uplink and an address of
\* each, in local gateway mode, and the node owns further addresses of both
C31_Witness ==
  /\ gen.pos = "generated" /\ gen.err = ""
  /\ gen.config.IPv4Mode /\ gen.config.IPv6Mode /\ gen.config.Mode = "local"
  /\ gen.bridge.ofPortPhys # ""
  /\ Len(gen.extraIPs) > 2
  /\ Len(OfFamily(gen.flows, "ip")) > 10
  /\ Len(OfFamily(gen.flows, "ipv6")) > 10
  /\ \E i \in 1..Len(gen.flows) : gen.flows[i].mode = "local"

\* ------------------------------------------------------------------
\* the addresses of the listed slices, each with the type of its slice and
\* the node of its endpoint
ListedAddresses(idx) ==
  UNION { UNION { { [type |-> EgressSlices[i].addressType, node |-> ep.nodeName,
                     ip |-> ParseIPSloppyString(ep.addresses[k])] :
                    k \in 1..Len(ep.addresses) } :
                  ep \in RangeOf(EgressSlices[i].endpoints) } :
          i \in idx }
\* the address is one allEndpointsFor leaves out
LeftOut(o, interconnect) ==
  \/ o.type = "FQDN"
  \/ o.node = ""
  \/ IsHostEndpoint(o.ip)
  \/ interconnect /\ o.node \notin DOMAIN nodesZoneState
\* the set of the result an address that is not left out belongs to
SetOf(o, interconnect) ==
  (IF o.type = "IPv6" THEN "v6" ELSE "v4")
    \o (IF ~interconnect \/ nodesZoneState[o.node] THEN "LocalEndpoints" ELSE "RemoteEndpoints")
EndpointSets == {"v4LocalEndpoints", "v6LocalEndpoints", "v4RemoteEndpoints", "v6RemoteEndpoints"}

\* C32: allEndpointsFor returns no address of an FQDN slice, of an endpoint
\* without a node or of the host network; without interconnect every other
\* address is in the local set of its family and the remote sets are empty;
\* with interconnect the endpoints on a node of unknown zone are left out and
\* every other address is in the local or the remote set of its family, as
\* the zone of its node says, and in no other set
C32_AllEndpointsForClassifies ==
  (egress.pos = "returned" /\ ~egress.listErr) =>
    LET ic == egress.interconnect
        occ == ListedAddresses(egress.listed)
        kept == { o \in occ : ~LeftOut(o, ic) }
        out == egress.out
    IN /\ ~out.err
       /\ \A o \in occ \ kept :
            (\A q \in kept : q.ip # o.ip) => \A f \in EndpointSets : o.ip \notin out[f]
       /\ \A o \in kept : \A f \in EndpointSets : (o.ip \in out[f]) <=> (f = SetOf(o, ic))
       /\ \A f \in EndpointSets : out[f] \subseteq { o.ip : o \in kept }
       /\ ~ic => out.v4RemoteEndpoints = {} /\ out.v6RemoteEndpoints = {}

\* with interconnect on, all slices listed: one address in each of the four sets
C32_Witness ==
  /\ egress.pos = "returned" /\ egress.interconnect /\ ~egress.listErr
  /\ egress.listed = 1..Len(EgressSlices)
  /\ egress.out.v4LocalEndpoints = {"10.0.0.5"}
  /\ egress.out.v4RemoteEndpoints = {"10.0.1.9"}
  /\ egress.out.v6LocalEndpoints = {"fd01::5"}
  /\ egress.out.v6RemoteEndpoints = {"fd01::9"}

\* ---- C33
\* C33: every interleaving of AddEndpointSlice and DeleteService on the same
\* key ends with the record present and the rules of the service installed,
\* or with the record absent and no rule of the service installed, and
\* AddEndpointSlice installs no rules once DeleteService has removed the
\* record.
C33_AddRaceEndsConsistent ==
  /\ [] ( (race.aes = "done" /\ race.ds = "done" /\ Eligible(race.service))
            => \/ HasRecord /\ RecordRules(serviceInfo[SvcName]) \subseteq ipt
               \/ ~HasRecord /\ SvcFlowKeys = {} /\ SvcIptRules = {} )
  /\ [][ lastCall' = "AES_addServiceRules" => HasRecord ]_allVars

\* ---- C34
\* the goroutine asks for a mutex that is held
Blocked(g) ==
  /\ locks.handler[g] # ""
  /\ locks.pc[g] <= Len(LockProgram(locks.handler[g]))
  /\ NextLockOp(g)[1] = "Lock"
  /\ locks.holder[NextLockOp(g)[2]] # ""
\* the goroutine runs, or waits for one that will let it run
RECURSIVE WillRun(_, _)
WillRun(g, n) ==
  \/ ~Blocked(g)
  \/ /\ n > 0
     /\ locks.holder[NextLockOp(g)[2]] # g
     /\ WillRun(locks.holder[NextLockOp(g)[2]], n - 1)
\* the pairs <<a, b>> of mutexes such that the handler asks for b while it
\* holds a
RECURSIVE NestedFrom(_, _, _)
NestedFrom(prog, i, held) ==
  IF i > Len(prog) THEN {}
  ELSE IF prog[i][1] = "Lock"
    THEN { <<a, prog[i][2]>> : a \in held } \cup NestedFrom(prog, i + 1, held \cup {prog[i][2]})
    ELSE NestedFrom(prog, i + 1, held \ {prog[i][2]})
AllHandlers == UNION { HandlersOf(g) : g \in Goroutines }
Nested == UNION { NestedFrom(LockProgram(h), 1, {}) : h \in AllHandlers }

\* C34: Service handlers, EndpointSlice handlers, SyncServices and the
\* address-change callback running at once never deadlock: no two paths take
\* two of the four mutexes in opposite orders, no handler asks again for a
\* mutex it holds, and every goroutine that waits for a mutex waits for a
\* goroutine that can go on
C34_NoDeadlock ==
  /\ \A p \in Nested : p[1] # p[2] /\ <<p[2], p[1]>> \notin Nested
  /\ \A g \in Goroutines : Blocked(g) => locks.holder[NextLockOp(g)[2]] # g
  /\ \A g \in Goroutines : WillRun(g, Cardinality(Goroutines))
  /\ \A m \in Mutexes : locks.holder[m] # "" => locks.handler[locks.holder[m]] # ""

\* DeleteEndpointSlice holds the record-map mutex, the gateway-IP lock and the
\* flow mutex; a Service handler waits for the record map, SyncServices for
\* the gateway-IP lock and the callback, holding the bridge lock, for the flow
\* mutex
C34_Witness ==
  /\ locks.handler["endpointslice"] = "DeleteEndpointSlice"
  /\ locks.holder["serviceInfoLock"] = "endpointslice"
  /\ locks.holder["gatewayIPLock"] = "endpointslice"
  /\ locks.holder["flowMutex"] = "endpointslice"
  /\ locks.holder["gatewayBridge"] = "address"
  /\ Blocked("service") /\ Blocked("sync") /\ Blocked("address")

\* ---- C35
\* some packet-filter rule of the record is not installed
RulesMissing == HasRecord /\ ~(RecordRules(serviceInfo[SvcName]) \subseteq ipt)

\* this step keeps the record and leaves all its rules installed where some
\* were missing before
InstallsMissingRules ==
  /\ RulesMissing
  /\ SvcName \in DOMAIN serviceInfo'
  /\ RecordRules(serviceInfo'[SvcName]) \subseteq ipt'

\* a repeated AddService that finds a record changes nothing, and the one
\* that follows a failed AddService finds the record
RepeatedAddInstallsNothing ==
  /\ (lastCall' = "AddService (retry)" /\ HasRecord) =>
       /\ serviceInfo' = serviceInfo /\ flowCache' = flowCache /\ ipt' = ipt
       /\ flowChan' = flowChan /\ lastOps' = <<>> /\ ~lastErr'
  /\ (lastCall' = "AddService (retry)" /\ lastCall = "AddService" /\ lastErr) =>
       HasRecord

\* the slice whose content this step changed has no endpoint address left
UpdatedSliceIsEmpty ==
  \E i \in DOMAIN apiSlices :
    /\ i \in DOMAIN apiSlices' /\ apiSlices'[i] # apiSlices[i]
    /\ GetEndpointAddresses({apiSlices'[i]}) = {}

\* C35 (as stated): after an AddService whose rule installation failed, a
\* repeated AddService finds the record and installs nothing; the missing
\* rules are installed only by an EndpointSlice event that changes the
\* endpoint state of the record, by an UpdateService that is not skipped, or
\* by SyncServices.
C35_MissingRulesOnlyByStateChange ==
  [][ /\ RepeatedAddInstallsNothing
      /\ InstallsMissingRules =>
           \/ /\ lastCall' \in {"AddEndpointSlice", "UpdateEndpointSlice",
                                "DeleteEndpointSlice"}
              /\ serviceInfo'[SvcName] # serviceInfo[SvcName]
           \/ /\ lastCall' = "UpdateService"
              /\ ~serviceUpdateNotNeeded(apiSvc[SvcName], apiSvc'[SvcName])
           \/ lastCall' \in {"SyncServices", "SyncServices again"}
    ]_allVars

\* C35 (amended): after an AddService whose rule installation failed, a
\* repeated AddService finds the record and installs nothing; while the record
\* stays, the missing rules are installed only by an AddEndpointSlice that
\* changes the endpoint state of the record, by a DeleteEndpointSlice or an
\* UpdateEndpointSlice (which reinstall whether or not the recorded endpoint
\* state changes), by an UpdateService that is not skipped, or by
\* SyncServices.
C35_MissingRulesOnlyByReinstallingEvents ==
  [][ /\ RepeatedAddInstallsNothing
      /\ InstallsMissingRules =>
           \/ /\ lastCall' = "AddEndpointSlice"
              /\ serviceInfo'[SvcName] # serviceInfo[SvcName]
           \/ lastCall' \in {"UpdateEndpointSlice", "DeleteEndpointSlice"}
           \/ /\ lastCall' = "UpdateService"
              /\ ~serviceUpdateNotNeeded(apiSvc[SvcName], apiSvc'[SvcName])
           \/ lastCall' \in {"SyncServices", "SyncServices again"}
    ]_allVars

\* an AddService failed, and the repeated AddService found the record and
\* left the rules missing
C35_Witness ==
  /\ lastCall = "AddService (retry)" /\ failed /\ ~lastErr /\ lastOps = <<>>
  /\ RulesMissing

\* ---- C36
\* a step of SyncServices, with the service in its list or not
SyncServicesStep ==
  lastCall' \in {"SyncServices", "SyncServices again", "SyncServices (service not listed)"}

\* SyncServices does not reach the key: its service is not in the list, or the
\* slice listing of the service answers not-found
SyncSkipsKey ==
  \/ lastCall' = "SyncServices (service not listed)"
  \/ (lastCall' \in {"SyncServices", "SyncServices again"} /\ (~Live \/ ListingNotFound))

\* C36 (as stated): SyncServices removes no record and no flow-cache key; when
\* the service of a key is not in the list it is called with, or the slice
\* listing of the service answers not-found, the record and the flow-cache
\* entries of the key are after the call what they were before it.
C36_SyncServicesRemovesNothing ==
  [][ /\ SyncServicesStep =>
           /\ DOMAIN serviceInfo \subseteq DOMAIN serviceInfo'
           /\ DOMAIN flowCache \subseteq DOMAIN flowCache'
      /\ SyncSkipsKey => (serviceInfo' = serviceInfo /\ flowCache' = flowCache)
    ]_allVars

\* C36 (amended): SyncServices removes no record; when the service of a key
\* is not in the list it is called with, or the slice listing of the service
\* answers not-found, the record and the flow-cache entries of the key are
\* after the call what they were before it. For a service it processes it
\* deletes and rewrites the flow-cache entries of the service: the only keys
\* it removes are NodePort keys of that service in local gateway mode, when
\* the service has no local host-networked endpoint any more.
C36_SyncServicesRemovesOnlyUnneededNodePortKeys ==
  [][ /\ SyncServicesStep =>
           /\ DOMAIN serviceInfo \subseteq DOMAIN serviceInfo'
           /\ \A k \in DOMAIN flowCache \ DOMAIN flowCache' :
                /\ k.t = "NodePort" /\ k.name = SvcName /\ gwMode = "local"
                /\ ~serviceInfo'[SvcName].hasLocalHostNetworkEp
      /\ SyncSkipsKey => (serviceInfo' = serviceInfo /\ flowCache' = flowCache)
    ]_allVars

\* SyncServices skipped the service, whose slice listing answered not-found,
\* and left its record and its flow-cache entries in place
C36_Witness ==
  /\ lastCall = "SyncServices" /\ Live /\ ListingNotFound
  /\ HasRecord /\ SvcFlowKeys # {}

\* ---- C37
\* the gateway IPs of the bridge as it is now
CurrentGatewayIP(flowProtocol) ==
  IF Contains6(flowProtocol) THEN getGatewayFamilyAddrs(gateway.ips).v6
  ELSE getGatewayFamilyAddrs(gateway.ips).v4

\* C37: once the address-change callback has completed after a change of the
\* gateway IP, every case1 flow the flow cache holds for a service has the
\* current gateway IP as its DNAT destination.
C37_Case1FlowsFollowGatewayIP ==
  (gateway.pos = "idle" /\ gateway.nodePortWatcher) =>
     \A fp \in DOMAIN gateway.cache : gateway.cache[fp] = CurrentGatewayIP(fp)

\* ---- C38
\* C38: in every configuration, with or without a nodePortWatcher, the
\* address-change callback runs to its end, and it requests a flow sync when
\* it returns.
C38_CallbackCompletesAndRequestsSync ==
  /\ [](gateway.pos # "panic")
  /\ [][(gateway.pos \notin {"new", "idle"} /\ gateway'.pos = "idle") =>
          gateway'.flowChan = 1]_allVars

\* ---- C39
\* the conntrack part of the operations of a call
ConntrackOps(ops) == SelectSeq(ops, LAMBDA o : o.op \in {"conntrack", "conntrack failed"})

\* the part of the purge a pair belongs to: 1 for an external or
\* load-balancer IP, 2 for a node port, 3 for a cluster IP
PurgePart(service, o) ==
  IF o.a \in GetExternalAndLBIPs(service) THEN 1
  ELSE IF o.a \in RangeOf(NodeIPList) THEN 2
  ELSE 3

\* C39: when a conntrack deletion fails during DeleteService, the pairs before
\* it were purged in the order external and load-balancer IPs, node ports,
\* cluster IPs, the failed pair is the last one tried, the record is gone and
\* the rules are deleted as without the failure, and DeleteService returns an
\* error.
C39_PurgeStopsAtFirstFailure ==
  [][ (lastCall' = "DeleteService (conntrack fails)" /\ Eligible(apiSvc[SvcName])) =>
        LET service == apiSvc[SvcName]
            ct == ConntrackOps(lastOps')
            full == deleteConntrackForService(service)
            plain == DeleteService(Cur, service, Lister(apiSvc', apiSlices, listerNF, TRUE))
        IN /\ lastErr'
           /\ Len(ct) >= 1 /\ Len(ct) <= Len(full)
           /\ ct[Len(ct)] = ConntrackFailed(full[Len(ct)])
           /\ \A i \in 1..(Len(ct) - 1) : ct[i] = full[i]
           /\ \A i, j \in 1..Len(ct) :
                i < j => PurgePart(service, ct[i]) <= PurgePart(service, ct[j])
           /\ lastOps'[Len(lastOps')].op = "conntrack failed"
           /\ SvcName \notin DOMAIN serviceInfo'
           /\ HasOp(lastOps', "delServiceRules") <=> HasRecord
           /\ serviceInfo' = plain.si /\ flowCache' = plain.fc /\ ipt' = plain.ipt
    ]_allVars

\* the deletion of the two-port load-balancer service with a record failed at
\* its first node port: the four pairs of the external and the ingress IP were
\* purged, the second node port and the cluster IP were not, the record is
\* gone
C39_Witness ==
  /\ lastCall = "DeleteService (conntrack fails)" /\ lastErr
  /\ Len(ConntrackOps(lastOps)) = 5
  /\ ConntrackOps(lastOps)[4].op = "conntrack"
  /\ ConntrackOps(lastOps)[5].a \in RangeOf(NodeIPList)
  /\ HasOp(lastOps, "delServiceRules")
  /\ ~HasRecord /\ SvcFlowKeys = {}

\* ---- C40
\* C40: when the request to the CNI server has failed (transport error,
\* status other than 200, unparsable response), CmdAdd and CmdDel do nothing
\* more than return that error: they do not read the response, touch an
\* interface or print a result.
C40_RequestErrorIsReturned ==
  (cni.errC # "nil") =>
     /\ cni.pos \in {"cmdCommon returned", "returned"}
     /\ cni.done = {}
     /\ cni.pos = "returned" => cni.returned = cni.errC

====
